---- MODULE Spec2Model ----
(***************************************************************************)
(* DreamVault: the SQLite job queue (src/src/dreamvault/core/queue.py),    *)
(* the leaky-bucket rate limiter (src/src/dreamvault/core/rate_limit.py)   *)
(* and the adaptive conversation extractor                                 *)
(* (src/src/dreamvault/scrapers/adaptive_extractor.py).                    *)
(*                                                                         *)
(* Every public method of JobQueue runs its whole body under self._lock    *)
(* and commits one SQL statement (fail_job: a SELECT and one UPDATE inside *)
(* the same lock and transaction), so each method is one atomic action.    *)
(* The jobs table is a function from the row ids in use to rows.           *)
(*                                                                         *)
(* Every access of a LeakyBucket runs under the lock of the bucket.        *)
(* try_acquire and get_stats of RateLimiter are one action each; the       *)
(* sleeping loops of wait_for_tokens and acquire_with_backoff are a step   *)
(* for each stretch between two sleeps or readings of the clock.  In       *)
(* RaceSpec try_acquire and reset_host_bucket are taken statement by       *)
(* statement, for threads that interleave.                                 *)
(*                                                                         *)
(* The extractor is used by one caller at a time: get_conversation_list    *)
(* is one action, computed from the document the driver shows.             *)
(***************************************************************************)
EXTENDS Integers, Sequences, FiniteSets, TLC

(***************************************************************************)
(* Bounds of the model.                                                    *)
(***************************************************************************)
MaxSeq == 2
NumWorkers == 2
MaxClock == 3
NumThreads == 2

(***************************************************************************)
(* Program constants.                                                      *)
(***************************************************************************)
DefaultMaxRetries == 3
DefaultPriority == 0
SecondsPerDay == 86400

(***************************************************************************)
(* JobStatus (queue.py:14-20).                                             *)
(***************************************************************************)
PENDING == "pending"
PROCESSING == "processing"
COMPLETED == "completed"
FAILED == "failed"
RETRY == "retry"
JobStatus == {PENDING, PROCESSING, COMPLETED, FAILED, RETRY}

(***************************************************************************)
(* SQL NULL for text columns and for timestamp columns; Python None.       *)
(***************************************************************************)
NULL == "NULL"
NoTime == -1
None == "None"
NoJob == 0

(***************************************************************************)
(* Inputs.  Metadata values are JSON-serialisable dictionaries: Python     *)
(* None, the empty dictionary, and one non-empty dictionary.               *)
(***************************************************************************)
ConvIds == {"a", "b"}
EmptyDict == "{}"
Meta1 == "{k: v}"
AddArgs == { <<DefaultPriority, None, "", "">>, <<1, Meta1, "h1", "p1">> }
Errors == {"e1"}
Days == {0, 1}
Instants == {0, SecondsPerDay}
Workers == 1..NumWorkers
JobIds == 1..MaxSeq

VARIABLES jobs, seq, now, ret, pc, held, winners, failsInARow,
          storeUp, locked, limiter, clock, call, log,
          heap, hostBuckets, hostLocks, thr, resets,
          cache, disk, last

vars == <<jobs, seq, now, ret, pc, held, winners, failsInARow,
          storeUp, locked, limiter, clock, call, log,
          heap, hostBuckets, hostLocks, thr, resets,
          cache, disk, last>>

(***************************************************************************)
(* The state outside the jobs table and the callers of the queue: whether  *)
(* the database file can be opened and written (storeUp), and whether      *)
(* self._lock is held (locked); and the rate limiter: the RateLimiter      *)
(* object (limiter), the clock time.time() reads (clock), the call of      *)
(* wait_for_tokens or acquire_with_backoff that is under way (call) and    *)
(* the outcomes of the calls made so far (log).                            *)
(***************************************************************************)
rateVars == <<limiter, clock, call, log>>

queueVars == <<jobs, seq, now, pc, held, winners, failsInARow,
               storeUp, locked>>

(***************************************************************************)
(* Threads inside RateLimiter.try_acquire and reset_host_bucket, a step at *)
(* a time: the LeakyBucket objects made for hosts, in the order they were  *)
(* made, each with the number of debits it has granted (heap); the         *)
(* dictionary self.host_buckets from a host to the place of its bucket in  *)
(* heap (hostBuckets); the thread that holds self.host_locks[host], if any *)
(* (hostLocks); where every thread is, with its local variables (thr); and *)
(* the number of buckets deleted so far (resets).                          *)
(***************************************************************************)
raceVars == <<heap, hostBuckets, hostLocks, thr, resets>>

(***************************************************************************)
(* The AdaptiveExtractor: self.successful_selectors["selectors"] (cache),  *)
(* the contents of the selector cache file, NoFile while there is none     *)
(* (disk), and what the last call of get_conversation_list did with the    *)
(* driver: the selectors it tested, in order, the selector it extracted    *)
(* with, if any, and the number of scroll attempts it made (last).         *)
(***************************************************************************)
extractorVars == <<cache, disk, last>>

notQueue == <<rateVars, raceVars, extractorVars>>

notLimiter == <<queueVars, raceVars, extractorVars>>

outside == <<storeUp, locked, limiter, clock, call, log, raceVars,
             extractorVars>>

(***************************************************************************)
(* add_job stores json.dumps(metadata) if metadata else None: a falsy      *)
(* metadata (None or {}) is stored as NULL.  get_next_job returns          *)
(* json.loads(text) if text else {}.                                       *)
(***************************************************************************)
DumpMetadata(metadata) ==
    IF metadata \in {None, EmptyDict} THEN NULL ELSE metadata

LoadMetadata(text) ==
    IF text = NULL THEN EmptyDict ELSE text

(***************************************************************************)
(* The row INSERT creates: the column defaults of CREATE TABLE jobs.       *)
(***************************************************************************)
NewRow(conversation_id, priority, metadata, content_hash, prompt_hash) ==
    [conversation_id |-> conversation_id,
     status          |-> PENDING,
     priority        |-> priority,
     created_at      |-> now,
     started_at      |-> NoTime,
     completed_at    |-> NoTime,
     retry_count     |-> 0,
     max_retries     |-> DefaultMaxRetries,
     error_message   |-> NULL,
     metadata        |-> DumpMetadata(metadata),
     content_hash    |-> content_hash,
     prompt_hash     |-> prompt_hash]

(***************************************************************************)
(* UNIQUE(conversation_id): INSERT OR IGNORE skips the row on a conflict.  *)
(* ConflictsNever: the column without its UNIQUE constraint.               *)
(***************************************************************************)
ConflictsNever(conversation_id) == FALSE

Conflicts(conversation_id) ==
    \E i \in DOMAIN jobs : jobs[i].conversation_id = conversation_id

Extend(f, i, row) ==
    [k \in (DOMAIN f) \cup {i} |-> IF k = i THEN row ELSE f[k]]

(***************************************************************************)
(* AddJobReplace: INSERT OR REPLACE in place of INSERT OR IGNORE, the      *)
(* conflicting row is deleted and the new one inserted.                    *)
(***************************************************************************)
AddJobReplace(conversation_id, priority, metadata, content_hash, prompt_hash) ==
    /\ seq < MaxSeq
    /\ seq' = seq + 1
    /\ jobs' = [k \in {i \in DOMAIN jobs : jobs[i].conversation_id # conversation_id}
                       \cup {seq + 1} |->
                   IF k = seq + 1
                   THEN NewRow(conversation_id, priority, metadata,
                               content_hash, prompt_hash)
                   ELSE jobs[k]]
    /\ ret' = [op |-> "add_job",
               arg |-> <<conversation_id, priority, metadata,
                         content_hash, prompt_hash>>,
               result |-> TRUE]
    /\ UNCHANGED now

(***************************************************************************)
(* add_job.  AUTOINCREMENT: the row id is one more than the largest id     *)
(* ever allocated, and SQLite advances sqlite_sequence even when the       *)
(* insert is ignored, so ids are never reused.                             *)
(***************************************************************************)
AddJob(conversation_id, priority, metadata, content_hash, prompt_hash) ==
    /\ seq < MaxSeq
    /\ seq' = seq + 1
    /\ IF Conflicts(conversation_id)
       THEN /\ UNCHANGED jobs
            /\ ret' = [op |-> "add_job",
                       arg |-> <<conversation_id, priority, metadata,
                                 content_hash, prompt_hash>>,
                       result |-> FALSE]
       ELSE /\ jobs' = Extend(jobs, seq + 1,
                         NewRow(conversation_id, priority, metadata,
                                content_hash, prompt_hash))
            /\ ret' = [op |-> "add_job",
                       arg |-> <<conversation_id, priority, metadata,
                                 content_hash, prompt_hash>>,
                       result |-> TRUE]
    /\ UNCHANGED now

(***************************************************************************)
(* get_next_job: SELECT ... WHERE status = ? ORDER BY priority DESC,       *)
(* created_at ASC LIMIT 1.  SQLite reads the rows of one status from       *)
(* idx_jobs_status in row-id order and its ORDER BY keeps that order among *)
(* rows with equal keys, so equal (priority, created_at) come out in       *)
(* row-id order.  An Optional result is a set of at most one element.      *)
(***************************************************************************)
Matching(status) == {i \in DOMAIN jobs : jobs[i].status = status}

SortsBeforeOldestFirst(i, k) ==
    \/ jobs[i].created_at < jobs[k].created_at
    \/ /\ jobs[i].created_at = jobs[k].created_at
       /\ i < k

SortsBefore(i, k) ==
    \/ jobs[i].priority > jobs[k].priority
    \/ /\ jobs[i].priority = jobs[k].priority
       /\ jobs[i].created_at < jobs[k].created_at
    \/ /\ jobs[i].priority = jobs[k].priority
       /\ jobs[i].created_at = jobs[k].created_at
       /\ i < k

SelectNext(status) ==
    IF Matching(status) = {} THEN {}
    ELSE {CHOOSE i \in Matching(status) :
              \A k \in Matching(status) \ {i} : SortsBefore(i, k)}

JobDict(i) ==
    [id              |-> i,
     conversation_id |-> jobs[i].conversation_id,
     priority        |-> jobs[i].priority,
     metadata        |-> LoadMetadata(jobs[i].metadata),
     content_hash    |-> jobs[i].content_hash,
     prompt_hash     |-> jobs[i].prompt_hash]

GetNextJob(status) ==
    /\ ret' = [op |-> "get_next_job", arg |-> status,
               result |-> {JobDict(i) : i \in SelectNext(status)}]
    /\ UNCHANGED <<jobs, seq, now>>

(***************************************************************************)
(* start_job: UPDATE ... SET status = processing, started_at = now         *)
(* WHERE id = ? AND status = pending; returns rowcount > 0.                *)
(* StartJobAnyStatus: the UPDATE without "AND status = pending".           *)
(* StartJobKeepsStatus: the UPDATE stamps started_at only.                 *)
(***************************************************************************)
StartJobAnyStatus(job_id) ==
    /\ IF job_id \in DOMAIN jobs
       THEN /\ jobs' = [jobs EXCEPT ![job_id].status = PROCESSING,
                                    ![job_id].started_at = now]
            /\ ret' = [op |-> "start_job", arg |-> job_id, result |-> TRUE]
       ELSE /\ UNCHANGED jobs
            /\ ret' = [op |-> "start_job", arg |-> job_id, result |-> FALSE]
    /\ UNCHANGED <<seq, now>>

StartJobKeepsStatus(job_id) ==
    /\ IF job_id \in DOMAIN jobs /\ jobs[job_id].status = PENDING
       THEN /\ jobs' = [jobs EXCEPT ![job_id].started_at = now]
            /\ ret' = [op |-> "start_job", arg |-> job_id, result |-> TRUE]
       ELSE /\ UNCHANGED jobs
            /\ ret' = [op |-> "start_job", arg |-> job_id, result |-> FALSE]
    /\ UNCHANGED <<seq, now>>

StartJob(job_id) ==
    /\ IF job_id \in DOMAIN jobs /\ jobs[job_id].status = PENDING
       THEN /\ jobs' = [jobs EXCEPT ![job_id].status = PROCESSING,
                                    ![job_id].started_at = now]
            /\ ret' = [op |-> "start_job", arg |-> job_id, result |-> TRUE]
       ELSE /\ UNCHANGED jobs
            /\ ret' = [op |-> "start_job", arg |-> job_id, result |-> FALSE]
    /\ UNCHANGED <<seq, now>>

(***************************************************************************)
(* complete_job: UPDATE ... SET status = completed, completed_at = now     *)
(* WHERE id = ?; returns rowcount > 0.                                     *)
(* CompleteJobIfProcessing: the UPDATE with "AND status = processing".     *)
(***************************************************************************)
CompleteJobIfProcessing(job_id) ==
    /\ IF job_id \in DOMAIN jobs /\ jobs[job_id].status = PROCESSING
       THEN /\ jobs' = [jobs EXCEPT ![job_id].status = COMPLETED,
                                    ![job_id].completed_at = now]
            /\ ret' = [op |-> "complete_job", arg |-> job_id, result |-> TRUE]
       ELSE /\ UNCHANGED jobs
            /\ ret' = [op |-> "complete_job", arg |-> job_id, result |-> FALSE]
    /\ UNCHANGED <<seq, now>>

CompleteJob(job_id) ==
    /\ IF job_id \in DOMAIN jobs
       THEN /\ jobs' = [jobs EXCEPT ![job_id].status = COMPLETED,
                                    ![job_id].completed_at = now]
            /\ ret' = [op |-> "complete_job", arg |-> job_id, result |-> TRUE]
       ELSE /\ UNCHANGED jobs
            /\ ret' = [op |-> "complete_job", arg |-> job_id, result |-> FALSE]
    /\ UNCHANGED <<seq, now>>

(***************************************************************************)
(* fail_job: reads retry_count and max_retries of the row; with retries    *)
(* left the row goes to retry, otherwise (also when there is no such row,  *)
(* and then the UPDATE matches nothing) to failed.                         *)
(* FailJobRequeues: the retry branch puts the row back to pending.         *)
(* FailJobKeepsCount: the retry branch leaves retry_count as it is.        *)
(***************************************************************************)
ShouldRetryOnceMore(job_id) ==
    /\ job_id \in DOMAIN jobs
    /\ jobs[job_id].retry_count <= jobs[job_id].max_retries

ShouldRetry(job_id) ==
    /\ job_id \in DOMAIN jobs
    /\ jobs[job_id].retry_count < jobs[job_id].max_retries

FailJobRequeues(job_id, error_message) ==
    /\ IF ShouldRetry(job_id)
       THEN jobs' = [jobs EXCEPT ![job_id].status = PENDING,
                                 ![job_id].retry_count = @ + 1,
                                 ![job_id].error_message = error_message,
                                 ![job_id].started_at = NoTime]
       ELSE IF job_id \in DOMAIN jobs
            THEN jobs' = [jobs EXCEPT ![job_id].status = FAILED,
                                      ![job_id].error_message = error_message,
                                      ![job_id].completed_at = now]
            ELSE UNCHANGED jobs
    /\ ret' = [op |-> "fail_job", arg |-> <<job_id, error_message>>,
               result |-> (job_id \in DOMAIN jobs)]
    /\ UNCHANGED <<seq, now>>

FailJobKeepsCount(job_id, error_message) ==
    /\ IF ShouldRetry(job_id)
       THEN jobs' = [jobs EXCEPT ![job_id].status = RETRY,
                                 ![job_id].error_message = error_message,
                                 ![job_id].started_at = NoTime]
       ELSE IF job_id \in DOMAIN jobs
            THEN jobs' = [jobs EXCEPT ![job_id].status = FAILED,
                                      ![job_id].error_message = error_message,
                                      ![job_id].completed_at = now]
            ELSE UNCHANGED jobs
    /\ ret' = [op |-> "fail_job", arg |-> <<job_id, error_message>>,
               result |-> (job_id \in DOMAIN jobs)]
    /\ UNCHANGED <<seq, now>>

(***************************************************************************)
(* FailJobKeepsTimestamps: fail_job without its writes to started_at and   *)
(* completed_at.                                                           *)
(***************************************************************************)
FailJobKeepsTimestamps(job_id, error_message) ==
    /\ IF ShouldRetry(job_id)
       THEN jobs' = [jobs EXCEPT ![job_id].status = RETRY,
                                 ![job_id].retry_count = @ + 1,
                                 ![job_id].error_message = error_message]
       ELSE IF job_id \in DOMAIN jobs
            THEN jobs' = [jobs EXCEPT ![job_id].status = FAILED,
                                      ![job_id].error_message = error_message]
            ELSE UNCHANGED jobs
    /\ ret' = [op |-> "fail_job", arg |-> <<job_id, error_message>>,
               result |-> (job_id \in DOMAIN jobs)]
    /\ UNCHANGED <<seq, now>>

FailJob(job_id, error_message) ==
    /\ IF ShouldRetry(job_id)
       THEN jobs' = [jobs EXCEPT ![job_id].status = RETRY,
                                 ![job_id].retry_count = @ + 1,
                                 ![job_id].error_message = error_message,
                                 ![job_id].started_at = NoTime]
       ELSE IF job_id \in DOMAIN jobs
            THEN jobs' = [jobs EXCEPT ![job_id].status = FAILED,
                                      ![job_id].error_message = error_message,
                                      ![job_id].completed_at = now]
            ELSE UNCHANGED jobs
    /\ ret' = [op |-> "fail_job", arg |-> <<job_id, error_message>>,
               result |-> (job_id \in DOMAIN jobs)]
    /\ UNCHANGED <<seq, now>>

(***************************************************************************)
(* clear_completed_jobs: DELETE ... WHERE status IN (completed, failed)    *)
(* AND completed_at < datetime('now', '-N days'); a NULL completed_at      *)
(* compares as unknown and the row stays.  Returns the rowcount.           *)
(* PurgeableAnyStatus: the DELETE without "status IN (completed, failed)". *)
(***************************************************************************)
PurgeableAnyStatus(i, days_old) ==
    /\ jobs[i].completed_at # NoTime
    /\ jobs[i].completed_at < now - days_old * SecondsPerDay

Purgeable(i, days_old) ==
    /\ jobs[i].status \in {COMPLETED, FAILED}
    /\ jobs[i].completed_at # NoTime
    /\ jobs[i].completed_at < now - days_old * SecondsPerDay

Restrict(f, S) == [k \in S |-> f[k]]

ClearCompletedJobs(days_old) ==
    LET gone == {i \in DOMAIN jobs : Purgeable(i, days_old)}
        kept == (DOMAIN jobs) \ gone
    IN  /\ jobs' = Restrict(jobs, kept)
        /\ ret' = [op |-> "clear_completed_jobs", arg |-> days_old,
                   result |-> Cardinality(gone)]
        /\ UNCHANGED <<seq, now>>

(***************************************************************************)
(* reset_failed_jobs: UPDATE ... SET status = pending, retry_count = 0,    *)
(* error_message = NULL WHERE status = failed.  Returns the rowcount.      *)
(* ResetRowKeepsCount: the UPDATE without "retry_count = 0".               *)
(***************************************************************************)
ResetRowKeepsCount(row) ==
    [row EXCEPT !.status = PENDING, !.error_message = NULL]

ResetRow(row) ==
    [row EXCEPT !.status = PENDING, !.retry_count = 0, !.error_message = NULL]

ResetFailedJobs ==
    LET failed == Matching(FAILED)
    IN  /\ jobs' = [i \in DOMAIN jobs |->
                       IF i \in failed THEN ResetRow(jobs[i]) ELSE jobs[i]]
        /\ ret' = [op |-> "reset_failed_jobs", arg |-> None,
                   result |-> Cardinality(failed)]
        /\ UNCHANGED <<seq, now>>

(***************************************************************************)
(* The clock that CURRENT_TIMESTAMP and datetime('now') read, in seconds.  *)
(* Calls made without a Tick in between fall into the same second; a Tick  *)
(* lets a day pass, within the instants of the model.                      *)
(***************************************************************************)
Tick ==
    /\ now + SecondsPerDay \in Instants
    /\ now' = now + SecondsPerDay
    /\ UNCHANGED <<jobs, seq, ret>>

(***************************************************************************)
(* The rate limiter (src/src/dreamvault/core/rate_limit.py).               *)
(*                                                                         *)
(* time.time() is read as the variable clock, in ticks of 0.1 s, the       *)
(* longest sleep of the waiting loops.  Token levels are Python floats;    *)
(* they are kept exactly, in tenths of a token, so that a bucket leaking   *)
(* r tokens per second gains r tenths per tick.  The configurations of the *)
(* model have whole numbers of tokens per second.                          *)
(***************************************************************************)
TicksPerSecond == 10
TokenScale == 10

Min(a, b) == IF a <= b THEN a ELSE b

Truthy(x) == x \notin {None, ""}

(***************************************************************************)
(* Configurations: the dictionary RateLimiter.__init__ takes.  FastConfig  *)
(* leaks 5 tokens per second into every bucket; BurstConfig has the global *)
(* bucket of capacity 5 leaking 1 token per second.                        *)
(***************************************************************************)
FastConfig ==
    [global   |-> [requests_per_minute |-> 300, burst_size |-> 2],
     per_host |-> [requests_per_minute |-> 300, burst_size |-> 1],
     chatgpt  |-> [gpt4o        |-> [messages_per_3hrs |-> 54000,
                                     burst_size |-> 1],
                   gpt45        |-> [messages_per_week |-> 3024000,
                                     burst_size |-> 1],
                   o3_mini_high |-> [messages_per_day |-> 432000,
                                     burst_size |-> 1],
                   gpt4o_mini   |-> [auto_throttle |-> TRUE,
                                     fallback_to |-> "gpt4o"]]]

NoThrottleConfig ==
    [FastConfig EXCEPT !.chatgpt.gpt4o_mini.auto_throttle = FALSE]

BurstConfig ==
    [FastConfig EXCEPT !.global = [requests_per_minute |-> 60,
                                   burst_size |-> 5]]

Configs == {FastConfig, NoThrottleConfig}

(***************************************************************************)
(* leak_rate, in tenths of a token per tick, of a rate given per minute    *)
(* (rpm / 60.0) or as a number of messages per period of seconds.          *)
(***************************************************************************)
RatePer(amount, seconds) ==
    (amount * TokenScale) \div (seconds * TicksPerSecond)

(***************************************************************************)
(* LeakyBucket.__init__: a full bucket, last updated now.                  *)
(***************************************************************************)
LeakyBucket(capacity, leak_rate) ==
    [capacity    |-> capacity * TokenScale,
     leak_rate   |-> leak_rate,
     tokens      |-> capacity * TokenScale,
     last_update |-> clock]

(***************************************************************************)
(* LeakyBucket._leak_tokens: tokens = min(capacity, tokens + time_passed * *)
(* leak_rate); last_update = now.                                          *)
(* LeakTokensUncapped: the refill without min(capacity, ...).              *)
(***************************************************************************)
LeakTokensUncapped(b) ==
    [b EXCEPT !.tokens = b.tokens + (clock - b.last_update) * b.leak_rate,
              !.last_update = clock]

LeakTokens(b) ==
    [b EXCEPT !.tokens = Min(b.capacity,
                             b.tokens + (clock - b.last_update) * b.leak_rate),
              !.last_update = clock]

(***************************************************************************)
(* LeakyBucket.try_acquire, under the lock of the bucket: leak, then debit *)
(* when tokens >= the number asked for.  The result is the return value    *)
(* and the bucket afterwards.                                              *)
(* BucketTryAcquireStrict: the test with > in place of >=.                 *)
(***************************************************************************)
BucketTryAcquireStrict(b, tokens) ==
    LET leaked == LeakTokens(b)
    IN  IF leaked.tokens > tokens * TokenScale
        THEN [ok |-> TRUE,
              bucket |-> [leaked EXCEPT !.tokens = @ - tokens * TokenScale]]
        ELSE [ok |-> FALSE, bucket |-> leaked]

BucketTryAcquire(b, tokens) ==
    LET leaked == LeakTokens(b)
    IN  IF leaked.tokens >= tokens * TokenScale
        THEN [ok |-> TRUE,
              bucket |-> [leaked EXCEPT !.tokens = @ - tokens * TokenScale]]
        ELSE [ok |-> FALSE, bucket |-> leaked]

(***************************************************************************)
(* RateLimiter.__init__ and _init_chatgpt_buckets.                         *)
(***************************************************************************)
ChatgptModels == {"gpt4o", "gpt45", "o3_mini_high"}

RateLimiter(config) ==
    [global_bucket   |-> LeakyBucket(config.global.burst_size,
                             RatePer(config.global.requests_per_minute, 60)),
     host_buckets    |-> [h \in {} |-> 0],
     host_rpm        |-> config.per_host.requests_per_minute,
     host_burst      |-> config.per_host.burst_size,
     chatgpt_config  |-> config.chatgpt,
     chatgpt_buckets |->
         [m \in ChatgptModels |->
             CASE m = "gpt4o" ->
                      LeakyBucket(config.chatgpt.gpt4o.burst_size,
                          RatePer(config.chatgpt.gpt4o.messages_per_3hrs,
                                  3 * 3600))
               [] m = "gpt45" ->
                      LeakyBucket(config.chatgpt.gpt45.burst_size,
                          RatePer(config.chatgpt.gpt45.messages_per_week,
                                  7 * 24 * 3600))
               [] m = "o3_mini_high" ->
                      LeakyBucket(config.chatgpt.o3_mini_high.burst_size,
                          RatePer(config.chatgpt.o3_mini_high.messages_per_day,
                                  24 * 3600))]]

(***************************************************************************)
(* _get_chatgpt_bucket: the key of the bucket of a model, None as the      *)
(* empty set.  gpt4o_mini has no bucket of its own; with auto_throttle set *)
(* it uses the bucket named by fallback_to.                                *)
(***************************************************************************)
GetChatgptBucketOwnOnly(lim, model) ==
    IF model \in DOMAIN lim.chatgpt_buckets THEN {model} ELSE {}

GetChatgptBucket(lim, model) ==
    IF model \in DOMAIN lim.chatgpt_buckets
    THEN {model}
    ELSE IF /\ model = "gpt4o_mini"
            /\ lim.chatgpt_config.gpt4o_mini.auto_throttle
         THEN {lim.chatgpt_config.gpt4o_mini.fallback_to}
                  \cap DOMAIN lim.chatgpt_buckets
         ELSE {}

(***************************************************************************)
(* _get_host_bucket: the limiter with a bucket for the host, a full one    *)
(* created now when the host has none.                                     *)
(***************************************************************************)
GetHostBucket(lim, host) ==
    IF host \in DOMAIN lim.host_buckets
    THEN lim
    ELSE [lim EXCEPT !.host_buckets =
              Extend(@, host,
                     LeakyBucket(lim.host_burst, RatePer(lim.host_rpm, 60)))]

(***************************************************************************)
(* RateLimiter.try_acquire: the global bucket first, then the bucket of    *)
(* the host if a host is given, then the bucket of the model if a model is *)
(* given and has one; the first bucket that is short ends the call with    *)
(* False, the buckets before it stay debited.  The result is the return    *)
(* value and the limiter afterwards.                                       *)
(* HostStepUnchecked: the return value of the host bucket is not looked    *)
(* at.                                                                     *)
(* TryAcquireOnAllOrNothing: a call that returns False leaves the limiter  *)
(* as it found it.                                                         *)
(***************************************************************************)
HostStepUnchecked(lim, host, tokens) ==
    IF Truthy(host)
    THEN LET made == GetHostBucket(lim, host)
             h    == BucketTryAcquire(made.host_buckets[host], tokens)
         IN  [ok |-> TRUE,
              limiter |-> [made EXCEPT !.host_buckets[host] = h.bucket]]
    ELSE [ok |-> TRUE, limiter |-> lim]

HostStep(lim, host, tokens) ==
    IF Truthy(host)
    THEN LET made == GetHostBucket(lim, host)
             h    == BucketTryAcquire(made.host_buckets[host], tokens)
         IN  [ok |-> h.ok,
              limiter |-> [made EXCEPT !.host_buckets[host] = h.bucket]]
    ELSE [ok |-> TRUE, limiter |-> lim]

ModelStep(lim, model, tokens) ==
    IF Truthy(model) /\ GetChatgptBucket(lim, model) # {}
    THEN LET key == CHOOSE k \in GetChatgptBucket(lim, model) : TRUE
             m   == BucketTryAcquire(lim.chatgpt_buckets[key], tokens)
         IN  [ok |-> m.ok,
              limiter |-> [lim EXCEPT !.chatgpt_buckets[key] = m.bucket]]
    ELSE [ok |-> TRUE, limiter |-> lim]

TryAcquireOnAllOrNothing(lim, host, tokens, model) ==
    LET g    == BucketTryAcquire(lim.global_bucket, tokens)
        lim1 == [lim EXCEPT !.global_bucket = g.bucket]
        h    == HostStep(lim1, host, tokens)
        m    == ModelStep(h.limiter, model, tokens)
    IN  IF g.ok /\ h.ok /\ m.ok
        THEN m
        ELSE [ok |-> FALSE, limiter |-> lim]

TryAcquireOn(lim, host, tokens, model) ==
    LET g    == BucketTryAcquire(lim.global_bucket, tokens)
        lim1 == [lim EXCEPT !.global_bucket = g.bucket]
    IN  IF ~g.ok
        THEN [ok |-> FALSE, limiter |-> lim1]
        ELSE LET h == HostStep(lim1, host, tokens)
             IN  IF ~h.ok
                 THEN h
                 ELSE ModelStep(h.limiter, model, tokens)

(***************************************************************************)
(* The call of wait_for_tokens or acquire_with_backoff that is under way:  *)
(* its arguments, its local variables (start_time, attempt), the place it  *)
(* has reached (at) and, while it sleeps, the tick its sleep ends (wake).  *)
(* A timeout of None and one of 0 are both falsy and read as NoTimeout.    *)
(***************************************************************************)
NoTimeout == 0

(***************************************************************************)
(* A thread of the rate limiter: the call it is in (op), the statement it  *)
(* is at (at), the arguments host and tokens, and the bucket it got from   *)
(* _get_host_bucket (ref).  Two notes are kept of its last call: whether   *)
(* reset_host_bucket deleted that bucket while the thread held it (stale), *)
(* and whether the bucket it debited was at that moment the bucket of the  *)
(* host in self.host_buckets (applied).                                    *)
(***************************************************************************)
Threads == 1..NumThreads
RaceHosts == {"h1"}
NoThread == 0
NoBucket == 0

IdleThread ==
    [op |-> "idle", at |-> "idle", host |-> None, tokens |-> 0,
     ref |-> NoBucket, stale |-> FALSE, applied |-> "none"]

Idle ==
    [op |-> "idle", host |-> None, tokens |-> 0, model |-> None,
     timeout |-> NoTimeout, start_time |-> 0, max_retries |-> 0,
     base_delay |-> 0, attempt |-> 0, at |-> "idle", wake |-> 0]

(***************************************************************************)
(* History of the model, not of the program.  winners[i] holds the workers *)
(* whose start_job on row i has returned true since the row last became    *)
(* pending.                                                                *)
(* failsInARow[i] counts the fail_job calls that a caller who does nothing *)
(* else to the row has made on row i since its insert.                     *)
(***************************************************************************)
FailCap == DefaultMaxRetries + 2

BecamePending ==
    {i \in DOMAIN jobs' : jobs'[i].status = PENDING
                          /\ (i \notin DOMAIN jobs \/ jobs[i].status # PENDING)}

Gone == (DOMAIN jobs) \ (DOMAIN jobs')

KeepWinners ==
    winners' = [i \in JobIds |->
                   IF i \in BecamePending \cup Gone THEN {} ELSE winners[i]]

InitQueue ==
    /\ jobs = <<>>
    /\ seq = 0
    /\ now = 0
    /\ ret = [op |-> "init", arg |-> None, result |-> None]
    /\ pc = [w \in Workers |-> "idle"]
    /\ held = [w \in Workers |-> NoJob]
    /\ winners = [i \in JobIds |-> {}]
    /\ failsInARow = [i \in JobIds |-> 0]
    /\ storeUp = TRUE
    /\ locked = FALSE

InitLimiter(config) ==
    /\ clock = 0
    /\ limiter = RateLimiter(config)
    /\ call = Idle
    /\ log = <<>>

(***************************************************************************)
(* No cache file, and no call of get_conversation_list made yet.           *)
(***************************************************************************)
NoFile == <<0>>

NoCall ==
    [tried |-> <<>>, selected |-> {}, scroll_attempts |-> 0,
     no_new_conversations_count |-> 0]

InitExtractor ==
    /\ cache = <<>>
    /\ disk = NoFile
    /\ last = NoCall

InitRace ==
    /\ heap = <<>>
    /\ hostBuckets = [h \in {} |-> NoBucket]
    /\ hostLocks = [h \in RaceHosts |-> NoThread]
    /\ thr = [t \in Threads |-> IdleThread]
    /\ resets = 0

Init ==
    /\ InitQueue
    /\ InitLimiter(FastConfig)
    /\ InitRace
    /\ InitExtractor

(***************************************************************************)
(* Callers of the queue: any caller may invoke any operation with any      *)
(* argument, also with a job id that is not in the table.                  *)
(***************************************************************************)
ProbeIds == (DOMAIN jobs) \cup {seq + 1}

CallAddJob ==
    /\ \E c \in ConvIds, a \in AddArgs : AddJob(c, a[1], a[2], a[3], a[4])
    /\ UNCHANGED <<pc, held, winners, failsInARow>>
    /\ UNCHANGED outside

CallGetNextJob ==
    /\ \E s \in JobStatus : GetNextJob(s)
    /\ UNCHANGED <<pc, held, winners, failsInARow>>
    /\ UNCHANGED outside

CallStartJob ==
    /\ \E i \in ProbeIds : StartJob(i)
    /\ UNCHANGED <<pc, held, winners, failsInARow>>
    /\ UNCHANGED outside

CallCompleteJob ==
    /\ \E i \in ProbeIds : CompleteJob(i)
    /\ UNCHANGED <<pc, held, winners, failsInARow>>
    /\ UNCHANGED outside

CallFailJob ==
    /\ \E i \in ProbeIds, e \in Errors : FailJob(i, e)
    /\ UNCHANGED <<pc, held, winners, failsInARow>>
    /\ UNCHANGED outside

CallClearCompletedJobs ==
    /\ \E d \in Days : ClearCompletedJobs(d)
    /\ KeepWinners
    /\ UNCHANGED <<pc, held, failsInARow>>
    /\ UNCHANGED outside

CallResetFailedJobs ==
    /\ ResetFailedJobs
    /\ KeepWinners
    /\ UNCHANGED <<pc, held, failsInARow>>
    /\ UNCHANGED outside

PassTime ==
    /\ Tick
    /\ UNCHANGED <<pc, held, winners, failsInARow>>
    /\ UNCHANGED outside

Next ==
    \/ CallAddJob
    \/ CallGetNextJob
    \/ CallStartJob
    \/ CallCompleteJob
    \/ CallFailJob
    \/ CallClearCompletedJobs
    \/ CallResetFailedJobs
    \/ PassTime

Spec == Init /\ [][Next]_vars

(***************************************************************************)
(* Workers that follow the protocol of the queue: get_next_job (of the     *)
(* default status, pending), then start_job on the job returned, then,     *)
(* only when start_job returned true, complete_job or fail_job on it.      *)
(***************************************************************************)
WorkerClaim(w) ==
    /\ pc[w] = "idle"
    /\ GetNextJob(PENDING)
    /\ IF ret'.result = {}
       THEN UNCHANGED <<pc, held>>
       ELSE /\ pc' = [pc EXCEPT ![w] = "claimed"]
            /\ held' = [held EXCEPT ![w] = (CHOOSE r \in ret'.result : TRUE).id]
    /\ UNCHANGED <<winners, failsInARow>>
    /\ UNCHANGED outside

WorkerStart(w) ==
    /\ pc[w] = "claimed"
    /\ StartJob(held[w])
    /\ IF ret'.result
       THEN /\ pc' = [pc EXCEPT ![w] = "started"]
            /\ UNCHANGED held
            /\ winners' = [winners EXCEPT ![held[w]] = @ \cup {w}]
       ELSE /\ pc' = [pc EXCEPT ![w] = "idle"]
            /\ held' = [held EXCEPT ![w] = NoJob]
            /\ UNCHANGED winners
    /\ UNCHANGED failsInARow
    /\ UNCHANGED outside

WorkerComplete(w) ==
    /\ pc[w] = "started"
    /\ CompleteJob(held[w])
    /\ pc' = [pc EXCEPT ![w] = "idle"]
    /\ held' = [held EXCEPT ![w] = NoJob]
    /\ UNCHANGED <<winners, failsInARow>>
    /\ UNCHANGED outside

WorkerFail(w) ==
    /\ pc[w] = "started"
    /\ \E e \in Errors : FailJob(held[w], e)
    /\ pc' = [pc EXCEPT ![w] = "idle"]
    /\ held' = [held EXCEPT ![w] = NoJob]
    /\ UNCHANGED <<winners, failsInARow>>
    /\ UNCHANGED outside

WorkerStep ==
    \E w \in Workers :
        \/ WorkerClaim(w)
        \/ WorkerStart(w)
        \/ WorkerComplete(w)
        \/ WorkerFail(w)

WorkerNext ==
    \/ WorkerStep
    \/ CallAddJob
    \/ CallClearCompletedJobs
    \/ CallResetFailedJobs
    \/ PassTime

WorkerSpec == Init /\ [][WorkerNext]_vars

(***************************************************************************)
(* A caller that enqueues jobs and then only reports failures: fail_job is *)
(* applied to a row again and again, nothing else touches the rows.        *)
(***************************************************************************)
FailAgain ==
    /\ \E i \in DOMAIN jobs, e \in Errors :
          /\ failsInARow[i] < FailCap
          /\ FailJob(i, e)
          /\ failsInARow' = [failsInARow EXCEPT ![i] = @ + 1]
    /\ UNCHANGED <<pc, held, winners>>
    /\ UNCHANGED outside

RetryNext ==
    \/ CallAddJob
    \/ FailAgain
    \/ CallGetNextJob
    \/ PassTime

RetrySpec == Init /\ [][RetryNext]_vars

(***************************************************************************)
(* A caller that lets jobs age: jobs are enqueued with the default         *)
(* arguments, driven through their statuses, and purged while up to two    *)
(* days pass, so that some jobs are older than a cutoff of one day and     *)
(* others are not.                                                         *)
(***************************************************************************)
PurgeInstants == {0, SecondsPerDay, 2 * SecondsPerDay}

EnqueueDefault ==
    /\ \E c \in ConvIds : AddJob(c, DefaultPriority, None, "", "")
    /\ UNCHANGED <<pc, held, winners, failsInARow>>
    /\ UNCHANGED outside

PassDays ==
    /\ now + SecondsPerDay \in PurgeInstants
    /\ now' = now + SecondsPerDay
    /\ UNCHANGED <<jobs, seq, ret, pc, held, winners, failsInARow>>
    /\ UNCHANGED outside

PurgeNext ==
    \/ EnqueueDefault
    \/ CallStartJob
    \/ CallCompleteJob
    \/ CallFailJob
    \/ CallClearCompletedJobs
    \/ CallResetFailedJobs
    \/ PassDays

PurgeSpec == Init /\ [][PurgeNext]_vars

(***************************************************************************)
(* get_job_status: SELECT status FROM jobs WHERE conversation_id = ?; the  *)
(* JobStatus of the row, or None.                                          *)
(***************************************************************************)
GetJobStatus(conversation_id) ==
    /\ ret' = [op |-> "get_job_status", arg |-> conversation_id,
               result |-> {jobs[i].status : i \in
                              {k \in DOMAIN jobs :
                                  jobs[k].conversation_id = conversation_id}}]
    /\ UNCHANGED <<jobs, seq, now>>

(***************************************************************************)
(* The frame every method shares:                                          *)
(*     try:                                                                *)
(*         with self._lock:                                                *)
(*             conn = sqlite3.connect(self.db_path) ... conn.commit()      *)
(*             return <value>                                              *)
(*     except Exception:                                                   *)
(*         return <failure value>                                          *)
(* While the store is down sqlite3 raises in connect, execute or commit;   *)
(* nothing was committed, the connection is dropped and SQLite rolls the   *)
(* open transaction back.  The with statement releases the lock on both    *)
(* ways out.                                                               *)
(* WithLockNoRelease: acquire() and release() around the body with no      *)
(* finally, so that an exception leaves the lock held.                     *)
(***************************************************************************)
Raises(op, arg, failure) ==
    /\ ret' = [op |-> op, arg |-> arg, result |-> failure]
    /\ UNCHANGED <<jobs, seq, now>>

WithLockNoRelease(body) ==
    /\ ~locked
    /\ body
    /\ locked' = ~storeUp

WithLock(body) ==
    /\ ~locked
    /\ body
    /\ locked' = FALSE

Try(body, op, arg, failure) ==
    WithLock(IF storeUp THEN body ELSE Raises(op, arg, failure))

(***************************************************************************)
(* Callers of a queue whose store can go down and come back at any time.   *)
(***************************************************************************)
StoreGoesDown ==
    /\ storeUp
    /\ storeUp' = FALSE
    /\ UNCHANGED <<jobs, seq, now, ret, pc, held, winners, failsInARow, locked>>
    /\ UNCHANGED notQueue

StoreComesBack ==
    /\ ~storeUp
    /\ storeUp' = TRUE
    /\ UNCHANGED <<jobs, seq, now, ret, pc, held, winners, failsInARow, locked>>
    /\ UNCHANGED notQueue

TryAddJob ==
    /\ \E c \in ConvIds :
          Try(AddJob(c, DefaultPriority, None, "", ""), "add_job",
              <<c, DefaultPriority, None, "", "">>, FALSE)
    /\ UNCHANGED <<pc, held, winners, failsInARow, storeUp>>
    /\ UNCHANGED notQueue

TryGetNextJob ==
    /\ \E s \in JobStatus : Try(GetNextJob(s), "get_next_job", s, {})
    /\ UNCHANGED <<pc, held, winners, failsInARow, storeUp>>
    /\ UNCHANGED notQueue

TryStartJob ==
    /\ \E i \in ProbeIds : Try(StartJob(i), "start_job", i, FALSE)
    /\ UNCHANGED <<pc, held, winners, failsInARow, storeUp>>
    /\ UNCHANGED notQueue

TryCompleteJob ==
    /\ \E i \in ProbeIds : Try(CompleteJob(i), "complete_job", i, FALSE)
    /\ UNCHANGED <<pc, held, winners, failsInARow, storeUp>>
    /\ UNCHANGED notQueue

TryFailJob ==
    /\ \E i \in ProbeIds, e \in Errors :
          Try(FailJob(i, e), "fail_job", <<i, e>>, FALSE)
    /\ UNCHANGED <<pc, held, winners, failsInARow, storeUp>>
    /\ UNCHANGED notQueue

TryGetJobStatus ==
    /\ \E c \in ConvIds : Try(GetJobStatus(c), "get_job_status", c, {})
    /\ UNCHANGED <<pc, held, winners, failsInARow, storeUp>>
    /\ UNCHANGED notQueue

TryClearCompletedJobs ==
    /\ \E d \in Days :
          Try(ClearCompletedJobs(d), "clear_completed_jobs", d, 0)
    /\ UNCHANGED <<pc, held, winners, failsInARow, storeUp>>
    /\ UNCHANGED notQueue

TryResetFailedJobs ==
    /\ Try(ResetFailedJobs, "reset_failed_jobs", None, 0)
    /\ UNCHANGED <<pc, held, winners, failsInARow, storeUp>>
    /\ UNCHANGED notQueue

StoreNext ==
    \/ StoreGoesDown
    \/ StoreComesBack
    \/ TryAddJob
    \/ TryGetNextJob
    \/ TryStartJob
    \/ TryCompleteJob
    \/ TryFailJob
    \/ TryGetJobStatus
    \/ TryClearCompletedJobs
    \/ TryResetFailedJobs
    \/ PassTime

StoreSpec == Init /\ [][StoreNext]_vars

(***************************************************************************)
(* Callers of the rate limiter.  try_acquire takes the limiter through     *)
(* TryAcquireOn and returns its value.                                     *)
(***************************************************************************)
HostArgs == {None, "h1"}
ModelArgs == {None, "gpt4o", "gpt4o_mini", "bard"}
TokenArgs == {1, 2}

TryAcquire(host, tokens, model) ==
    LET r == TryAcquireOn(limiter, host, tokens, model)
    IN  /\ limiter' = r.limiter
        /\ ret' = [op |-> "try_acquire", arg |-> <<host, tokens, model>>,
                   result |-> r.ok]
        /\ UNCHANGED clock

(***************************************************************************)
(* LeakyBucket.get_stats leaks the bucket and reports it (utilization in   *)
(* percent).  RateLimiter.get_stats reports the global bucket, the bucket  *)
(* of the host (made if it has none), and every model bucket.              *)
(***************************************************************************)
BucketStats(b) ==
    [tokens      |-> LeakTokens(b).tokens,
     capacity    |-> b.capacity,
     leak_rate   |-> b.leak_rate,
     utilization |-> ((b.capacity - LeakTokens(b).tokens) * 100)
                         \div b.capacity]

StatsOn(lim, host) ==
    LET g == [lim EXCEPT !.global_bucket = LeakTokens(@)]
        h == IF Truthy(host)
             THEN [GetHostBucket(g, host) EXCEPT
                       !.host_buckets[host] = LeakTokens(@)]
             ELSE g
    IN  [h EXCEPT !.chatgpt_buckets =
             [m \in DOMAIN @ |-> LeakTokens(@[m])]]

GetStats(host, model) ==
    LET after == StatsOn(limiter, host)
    IN  /\ limiter' = after
        /\ ret' = [op |-> "get_stats", arg |-> <<host, model>>,
                   result |->
                       [global |-> BucketStats(limiter.global_bucket),
                        host |-> IF Truthy(host)
                                 THEN {BucketStats(
                                          GetHostBucket(limiter, host)
                                              .host_buckets[host])}
                                 ELSE {},
                        chatgpt_model |->
                            IF Truthy(model)
                            THEN {BucketStats(limiter.chatgpt_buckets[k]) :
                                     k \in GetChatgptBucket(limiter, model)}
                            ELSE {},
                        chatgpt_models |->
                            [m \in DOMAIN limiter.chatgpt_buckets |->
                                BucketStats(limiter.chatgpt_buckets[m])]]]
        /\ UNCHANGED clock

CallTryAcquire ==
    /\ \E h \in HostArgs, n \in TokenArgs, m \in ModelArgs :
          TryAcquire(h, n, m)
    /\ UNCHANGED <<call, log>>
    /\ UNCHANGED notLimiter

CallGetStats ==
    /\ \E h \in HostArgs, m \in {None, "gpt4o"} : GetStats(h, m)
    /\ UNCHANGED <<call, log>>
    /\ UNCHANGED notLimiter

(***************************************************************************)
(* Time passes, a tick at a time.                                          *)
(***************************************************************************)
AdvanceClock ==
    /\ clock < MaxClock
    /\ clock' = clock + 1
    /\ UNCHANGED <<limiter, call, log, ret>>
    /\ UNCHANGED notLimiter

RateInit ==
    /\ InitQueue
    /\ \E config \in Configs : InitLimiter(config)
    /\ InitRace
    /\ InitExtractor

RateNext ==
    \/ CallTryAcquire
    \/ CallGetStats
    \/ AdvanceClock

RateSpec == RateInit /\ [][RateNext]_vars

(***************************************************************************)
(* A caller that takes single tokens from the global bucket and nothing    *)
(* else, while time passes in steps of half the time the bucket needs to   *)
(* gain one token.  log holds, for every call, the tick it was made at and *)
(* its return value.                                                       *)
(***************************************************************************)
TokenInterval(b) == TokenScale \div b.leak_rate

BurstCapacity == limiter.global_bucket.capacity \div TokenScale

BurstTryAcquire ==
    /\ Len(log) < BurstCapacity + 3
    /\ TryAcquire(None, 1, None)
    /\ log' = Append(log, [at |-> clock, ok |-> ret'.result])
    /\ UNCHANGED call
    /\ UNCHANGED notLimiter

BurstAdvance ==
    LET half == TokenInterval(limiter.global_bucket) \div 2
    IN  /\ clock + half <= MaxClock * half
        /\ clock' = clock + half
        /\ UNCHANGED <<limiter, call, log, ret>>
        /\ UNCHANGED notLimiter

BurstInit ==
    /\ InitQueue
    /\ \E config \in {BurstConfig, FastConfig} : InitLimiter(config)
    /\ InitRace
    /\ InitExtractor

BurstNext ==
    \/ BurstTryAcquire
    \/ BurstAdvance

BurstSpec == BurstInit /\ [][BurstNext]_vars

(***************************************************************************)
(* RateLimiter.wait_for_tokens, a step for each stretch of the loop        *)
(* between two readings of the clock: the call (start_time), try_acquire,  *)
(* the timeout test with the computation of the wait, and the sleep.       *)
(* _calculate_wait_time reads get_stats of each bucket the call names,     *)
(* which leaks them and makes the bucket of the host if it has none.  The  *)
(* wait is kept in whole ticks, rounded up; sleep(min(wait_time, 0.1))     *)
(* ends one tick later, or any time after that.                            *)
(***************************************************************************)
CeilDiv(a, b) == (a + b - 1) \div b

WaitStatsOn(lim, host, model) ==
    LET g == [lim EXCEPT !.global_bucket = LeakTokens(@)]
        h == IF Truthy(host)
             THEN [GetHostBucket(g, host) EXCEPT
                       !.host_buckets[host] = LeakTokens(@)]
             ELSE g
    IN  IF Truthy(model) /\ GetChatgptBucket(h, model) # {}
        THEN [h EXCEPT !.chatgpt_buckets[
                           CHOOSE k \in GetChatgptBucket(h, model) : TRUE] =
                               LeakTokens(@)]
        ELSE h

CalculateWaitTime(b, tokens) ==
    IF b.tokens >= tokens * TokenScale
    THEN 0
    ELSE CeilDiv(tokens * TokenScale - b.tokens, b.leak_rate)

WaitTimes(lim, host, tokens, model) ==
    {CalculateWaitTime(lim.global_bucket, tokens)}
    \cup (IF Truthy(host)
          THEN {CalculateWaitTime(lim.host_buckets[host], tokens)}
          ELSE {})
    \cup (IF Truthy(model)
          THEN {CalculateWaitTime(lim.chatgpt_buckets[k], tokens) :
                   k \in GetChatgptBucket(lim, model)}
          ELSE {})

MaxOf(S) == CHOOSE x \in S : \A y \in S : y <= x

Returns(op, arg, result) ==
    /\ ret' = [op |-> op, arg |-> arg, result |-> result]
    /\ call' = Idle

WaitArg == <<call.host, call.tokens, call.timeout, call.model>>

WaitForTokensCall(host, tokens, timeout, model) ==
    /\ call.op = "idle"
    /\ call' = [Idle EXCEPT !.op = "wait_for_tokens", !.host = host,
                            !.tokens = tokens, !.timeout = timeout,
                            !.model = model, !.start_time = clock,
                            !.at = "try"]
    /\ UNCHANGED <<limiter, clock, ret, log>>

WaitTry ==
    /\ call.op = "wait_for_tokens"
    /\ call.at = "try"
    /\ LET r == TryAcquireOn(limiter, call.host, call.tokens, call.model)
       IN  /\ limiter' = r.limiter
           /\ IF r.ok
              THEN Returns("wait_for_tokens", WaitArg, TRUE)
              ELSE /\ call' = [call EXCEPT !.at = "check"]
                   /\ UNCHANGED ret
    /\ UNCHANGED <<clock, log>>
    /\ UNCHANGED notLimiter

WaitCheck ==
    /\ call.op = "wait_for_tokens"
    /\ call.at = "check"
    /\ IF call.timeout # NoTimeout /\ clock - call.start_time > call.timeout
       THEN /\ Returns("wait_for_tokens", WaitArg, FALSE)
            /\ UNCHANGED limiter
       ELSE LET after == WaitStatsOn(limiter, call.host, call.model)
                longest == MaxOf(WaitTimes(after, call.host, call.tokens,
                                           call.model))
                wait_time ==
                    IF call.timeout # NoTimeout
                    THEN Min(longest,
                             call.timeout - (clock - call.start_time))
                    ELSE longest
            IN  /\ limiter' = after
                /\ IF wait_time <= 0
                   THEN Returns("wait_for_tokens", WaitArg, FALSE)
                   ELSE /\ call' = [call EXCEPT !.at = "sleep",
                                        !.wake = clock + Min(wait_time, 1)]
                        /\ UNCHANGED ret
    /\ UNCHANGED <<clock, log>>
    /\ UNCHANGED notLimiter

WaitWake ==
    /\ call.op = "wait_for_tokens"
    /\ call.at = "sleep"
    /\ clock >= call.wake
    /\ call' = [call EXCEPT !.at = "try"]
    /\ UNCHANGED <<limiter, clock, ret, log>>
    /\ UNCHANGED notLimiter

(***************************************************************************)
(* RateLimiter.acquire_with_backoff: max_retries + 1 attempts of           *)
(* try_acquire, with a sleep of base_delay * 2 ** attempt after every      *)
(* failed attempt but the last.  base_delay is in ticks.                   *)
(***************************************************************************)
BackoffArg ==
    <<call.host, call.tokens, call.max_retries, call.base_delay, call.model>>

AcquireWithBackoffCall(host, tokens, max_retries, base_delay, model) ==
    /\ call.op = "idle"
    /\ call' = [Idle EXCEPT !.op = "acquire_with_backoff", !.host = host,
                            !.tokens = tokens, !.max_retries = max_retries,
                            !.base_delay = base_delay, !.model = model,
                            !.attempt = 0, !.at = "try"]
    /\ UNCHANGED <<limiter, clock, ret, log>>

BackoffTrySleepsAfterLast ==
    /\ call.op = "acquire_with_backoff"
    /\ call.at = "try"
    /\ LET r == TryAcquireOn(limiter, call.host, call.tokens, call.model)
       IN  /\ limiter' = r.limiter
           /\ IF r.ok
              THEN Returns("acquire_with_backoff", BackoffArg, TRUE)
              ELSE /\ call' = [call EXCEPT !.at = "sleep",
                                   !.wake = clock + call.base_delay
                                                      * 2 ^ call.attempt]
                   /\ UNCHANGED ret
    /\ UNCHANGED <<clock, log>>
    /\ UNCHANGED notLimiter

BackoffTry ==
    /\ call.op = "acquire_with_backoff"
    /\ call.at = "try"
    /\ LET r == TryAcquireOn(limiter, call.host, call.tokens, call.model)
       IN  /\ limiter' = r.limiter
           /\ IF r.ok
              THEN Returns("acquire_with_backoff", BackoffArg, TRUE)
              ELSE IF call.attempt < call.max_retries
                   THEN /\ call' = [call EXCEPT !.at = "sleep",
                                        !.wake = clock + call.base_delay
                                                           * 2 ^ call.attempt]
                        /\ UNCHANGED ret
                   ELSE Returns("acquire_with_backoff", BackoffArg, FALSE)
    /\ UNCHANGED <<clock, log>>
    /\ UNCHANGED notLimiter

BackoffWake ==
    /\ call.op = "acquire_with_backoff"
    /\ call.at = "sleep"
    /\ clock >= call.wake
    /\ call' = [call EXCEPT !.at = "try", !.attempt = @ + 1]
    /\ UNCHANGED <<limiter, clock, ret, log>>
    /\ UNCHANGED notLimiter

(***************************************************************************)
(* One caller that waits or backs off, beside callers of try_acquire and   *)
(* get_stats, while time passes.                                           *)
(***************************************************************************)
WaitArgs ==
    { <<None, 1, NoTimeout, None>>, <<"h1", 2, 1, None>>,
      <<"h1", 1, 2, "gpt4o">> }

BackoffArgs ==
    { <<None, 2, 0, 0, None>>, <<"h1", 1, 1, 1, None>>,
      <<None, 1, 2, 1, "gpt4o">> }

CallWaitForTokens ==
    /\ \E a \in WaitArgs : WaitForTokensCall(a[1], a[2], a[3], a[4])
    /\ UNCHANGED notLimiter

CallAcquireWithBackoff ==
    /\ \E a \in BackoffArgs :
          AcquireWithBackoffCall(a[1], a[2], a[3], a[4], a[5])
    /\ UNCHANGED notLimiter

OtherTryAcquire ==
    /\ \E h \in HostArgs : TryAcquire(h, 1, None)
    /\ UNCHANGED <<call, log>>
    /\ UNCHANGED notLimiter

OtherGetStats ==
    /\ GetStats("h1", "gpt4o")
    /\ UNCHANGED <<call, log>>
    /\ UNCHANGED notLimiter

WaitNext ==
    \/ CallWaitForTokens
    \/ WaitTry
    \/ WaitCheck
    \/ WaitWake
    \/ CallAcquireWithBackoff
    \/ BackoffTry
    \/ BackoffWake
    \/ OtherTryAcquire
    \/ OtherGetStats
    \/ AdvanceClock

WaitSpec == Init /\ [][WaitNext]_vars

(***************************************************************************)
(* A caller that empties the global bucket with one try_acquire of its     *)
(* whole capacity and then waits for tokens, alone: wait_for_tokens is     *)
(* called once, for at most capacity tokens and with a timeout of at least *)
(* the time the bucket needs to fill, capacity / leak_rate.  log holds the *)
(* tick and the return value of the emptying call.                         *)
(***************************************************************************)
RefillTicks(b) == CeilDiv(b.capacity, b.leak_rate)

RefillDrain ==
    /\ log = <<>>
    /\ TryAcquire(None, limiter.global_bucket.capacity \div TokenScale, None)
    /\ log' = <<[at |-> clock, ok |-> ret'.result]>>
    /\ UNCHANGED call
    /\ UNCHANGED notLimiter

RefillWait ==
    /\ log # <<>>
    /\ ret.op = "try_acquire"
    /\ \E n \in 1..(limiter.global_bucket.capacity \div TokenScale),
          extra \in {0, 1} :
          WaitForTokensCall(None, n,
                            RefillTicks(limiter.global_bucket) + extra, None)
    /\ UNCHANGED notLimiter

RefillAdvance ==
    /\ clock < RefillTicks(limiter.global_bucket) + MaxClock
    /\ clock' = clock + 1
    /\ UNCHANGED <<limiter, call, log, ret>>
    /\ UNCHANGED notLimiter

RefillNext ==
    \/ RefillDrain
    \/ RefillWait
    \/ WaitTry
    \/ WaitCheck
    \/ WaitWake
    \/ RefillAdvance

RefillSpec == Init /\ [][RefillNext]_vars

(***************************************************************************)
(* A step is a call of op when it leaves the clock alone and the value     *)
(* returned last is one of op: every operation records its return value,   *)
(* and only Tick moves the clock.                                          *)
(***************************************************************************)
Calls(op) == now' = now /\ ret'.op = op

OthersUnchanged(i) ==
    /\ DOMAIN jobs' = DOMAIN jobs
    /\ \A k \in (DOMAIN jobs) \ {i} : jobs'[k] = jobs[k]

(***************************************************************************)
(* C1: of the workers that call start_job on the same pending job, the     *)
(* first call returns true and every later one returns false, whatever the *)
(* order of the calls: a call on a job in the table returns true exactly   *)
(* when no call has returned true since the job became pending.  After the *)
(* winning call the job is processing and has that one winner.             *)
(***************************************************************************)
C1_ExactlyOneStartWins ==
    [][\A w \in Workers :
          (Calls("start_job") /\ pc[w] = "claimed" /\ pc'[w] # "claimed") =>
              LET i == held[w]
              IN  /\ ret'.arg = i
                  /\ i \in DOMAIN jobs => (ret'.result <=> winners[i] = {})
                  /\ ret'.result => /\ jobs'[i].status = PROCESSING
                                    /\ winners'[i] = {w}
                  /\ Cardinality(winners'[i]) <= 1]_vars

C1_Witness ==
    /\ ret.op = "start_job"
    /\ ret.result = FALSE
    /\ \E w \in Workers :
          /\ winners[ret.arg] = {w}
          /\ pc[w] = "started"
          /\ held[w] = ret.arg
          /\ jobs[ret.arg].status = PROCESSING

(***************************************************************************)
(* C2: in every reachable state at most one job exists for each            *)
(* conversation_id.                                                        *)
(***************************************************************************)
C2_OneJobPerConversation ==
    \A i, k \in DOMAIN jobs :
        jobs[i].conversation_id = jobs[k].conversation_id => i = k

C2_Witness ==
    /\ ret.op = "add_job"
    /\ ret.result = FALSE
    /\ Cardinality(DOMAIN jobs) = 1

(***************************************************************************)
(* C3: add_job with a conversation_id that is present returns false and    *)
(* leaves the table as it is, whatever the other arguments; with an absent *)
(* conversation_id it returns true and adds one job for it, pending, with  *)
(* retry_count 0 and the priority given, and changes no other job.         *)
(***************************************************************************)
C3_IdempotentEnqueue ==
    [][Calls("add_job") =>
        IF \E i \in DOMAIN jobs : jobs[i].conversation_id = ret'.arg[1]
        THEN ret'.result = FALSE /\ jobs' = jobs
        ELSE /\ ret'.result = TRUE
             /\ \E n \in (DOMAIN jobs') \ (DOMAIN jobs) :
                   /\ DOMAIN jobs' = (DOMAIN jobs) \cup {n}
                   /\ \A k \in DOMAIN jobs : jobs'[k] = jobs[k]
                   /\ jobs'[n].conversation_id = ret'.arg[1]
                   /\ jobs'[n].priority = ret'.arg[2]
                   /\ jobs'[n].status = PENDING
                   /\ jobs'[n].retry_count = 0
                   /\ jobs'[n].created_at = now]_vars

C3_Witness ==
    /\ ret.op = "add_job"
    /\ ret.result = FALSE
    /\ \E i \in DOMAIN jobs :
          /\ jobs[i].conversation_id = ret.arg[1]
          /\ jobs[i].priority # ret.arg[2]
          /\ jobs[i].content_hash # ret.arg[4]
          /\ jobs[i].status # PENDING

(***************************************************************************)
(* C4: with workers that follow the protocol, no two workers hold the same *)
(* job as started and not yet reported.                                    *)
(***************************************************************************)
C4_OneAttemptAtATime ==
    \A w1, w2 \in Workers :
        (pc[w1] = "started" /\ pc[w2] = "started" /\ held[w1] = held[w2])
            => w1 = w2

C4_Witness ==
    \E w1, w2 \in Workers :
        /\ pc[w1] = "started"
        /\ pc[w2] = "claimed"
        /\ held[w1] = held[w2]

C6_ClaimIsExclusive ==
    \A w1, w2 \in Workers :
        (pc[w1] # "idle" /\ pc[w2] # "idle" /\ held[w1] = held[w2]) => w1 = w2

(***************************************************************************)
(* C6 as amended: get_next_job only reads; once start_job has returned     *)
(* true to a worker, get_next_job(pending) returns that job to nobody      *)
(* until the worker has reported.                                          *)
(***************************************************************************)
C6_StartedIsNotClaimable ==
    [][(Calls("get_next_job") /\ ret'.arg = PENDING) =>
        /\ jobs' = jobs
        /\ \A r \in ret'.result :
              \A w \in Workers : ~(pc[w] = "started" /\ held[w] = r.id)]_vars

C6_Witness ==
    /\ ret.op = "get_next_job"
    /\ \E w1, w2 \in Workers :
          /\ pc[w1] = "started"
          /\ pc[w2] = "claimed"
          /\ held[w1] # held[w2]
          /\ \E r \in ret.result : r.id = held[w2]

(***************************************************************************)
(* C7: start_job on a pending job returns true, makes it processing and    *)
(* stamps started_at; on a job of any other status, or on an id that is    *)
(* not in the table, it returns false and changes nothing.                 *)
(***************************************************************************)
C7_StartOnlyPending ==
    [][Calls("start_job") =>
        IF ret'.arg \in DOMAIN jobs /\ jobs[ret'.arg].status = PENDING
        THEN /\ ret'.result = TRUE
             /\ jobs'[ret'.arg] = [jobs[ret'.arg] EXCEPT !.status = PROCESSING,
                                                         !.started_at = now]
             /\ OthersUnchanged(ret'.arg)
        ELSE ret'.result = FALSE /\ jobs' = jobs]_vars

C7_Witness ==
    /\ ret.op = "start_job"
    /\ ret.result = FALSE
    /\ ret.arg \in DOMAIN jobs
    /\ jobs[ret.arg].status = RETRY

(***************************************************************************)
(* C8: fail_job on a job with retry_count < max_retries makes it retry,    *)
(* adds one to retry_count, clears started_at and records the message,     *)
(* completed_at untouched; otherwise it makes the job failed, records the  *)
(* message and stamps completed_at, retry_count untouched.  No other job   *)
(* changes.                                                                *)
(***************************************************************************)
C8_FailRetriesThenFails ==
    [][(Calls("fail_job") /\ ret'.arg[1] \in DOMAIN jobs) =>
        LET i == ret'.arg[1]
            old == jobs[i]
            new == jobs'[i]
        IN  /\ ret'.result = TRUE
            /\ OthersUnchanged(i)
            /\ new.error_message = ret'.arg[2]
            /\ new.priority = old.priority
            /\ new.created_at = old.created_at
            /\ new.max_retries = old.max_retries
            /\ IF old.retry_count < old.max_retries
               THEN /\ new.status = RETRY
                    /\ new.retry_count = old.retry_count + 1
                    /\ new.started_at = NoTime
                    /\ new.completed_at = old.completed_at
               ELSE /\ new.status = FAILED
                    /\ new.retry_count = old.retry_count
                    /\ new.completed_at = now
                    /\ new.started_at = old.started_at]_vars

C8_Witness ==
    /\ ret.op = "fail_job"
    /\ ret.result = TRUE
    /\ Cardinality(DOMAIN jobs) = 2
    /\ ret.arg[1] \in DOMAIN jobs
    /\ jobs[ret.arg[1]].status = FAILED
    /\ jobs[ret.arg[1]].retry_count = jobs[ret.arg[1]].max_retries
    /\ jobs[ret.arg[1]].completed_at = now

(***************************************************************************)
(* C9: after n calls of fail_job in a row on a newly added job, the job is *)
(* retry with retry_count n while n <= max_retries, and failed with        *)
(* retry_count = max_retries from the call number max_retries + 1 on.      *)
(***************************************************************************)
C9_FailedAfterMaxRetriesPlusOne ==
    \A i \in DOMAIN jobs :
        LET n == failsInARow[i]
        IN  /\ n = 0 => jobs[i].status = PENDING /\ jobs[i].retry_count = 0
            /\ (1 <= n /\ n <= jobs[i].max_retries) =>
                  jobs[i].status = RETRY /\ jobs[i].retry_count = n
            /\ n >= jobs[i].max_retries + 1 =>
                  /\ jobs[i].status = FAILED
                  /\ jobs[i].retry_count = jobs[i].max_retries

C9_Witness ==
    \E i \in DOMAIN jobs :
        /\ failsInARow[i] = jobs[i].max_retries + 1
        /\ jobs[i].status = FAILED
        /\ jobs[i].retry_count = DefaultMaxRetries

(***************************************************************************)
(* C10: complete_job on a job of any status returns true, makes it         *)
(* completed and stamps completed_at, and changes nothing else of it;      *)
(* on an id that is not in the table it returns false and changes nothing. *)
(***************************************************************************)
C10_CompleteIsUnconditional ==
    [][Calls("complete_job") =>
        IF ret'.arg \in DOMAIN jobs
        THEN /\ ret'.result = TRUE
             /\ jobs'[ret'.arg] = [jobs[ret'.arg] EXCEPT !.status = COMPLETED,
                                                         !.completed_at = now]
             /\ OthersUnchanged(ret'.arg)
        ELSE ret'.result = FALSE /\ jobs' = jobs]_vars

C10_Witness ==
    /\ ret.op = "complete_job"
    /\ ret.result = TRUE
    /\ ret.arg \in DOMAIN jobs
    /\ jobs[ret.arg].status = COMPLETED
    /\ jobs[ret.arg].retry_count = DefaultMaxRetries
    /\ jobs[ret.arg].error_message # NULL
    /\ jobs[ret.arg].started_at = NoTime

(***************************************************************************)
(* C11: a job in retry is not handed out again by itself.  get_next_job of *)
(* the pending status never returns a job that is in retry, start_job on a *)
(* job in retry returns false and changes nothing, no passing of time and  *)
(* no call other than complete_job and fail_job changes the status of a    *)
(* job in retry (and these never make it pending), and after fail_job the  *)
(* job it was called on is in retry or failed, never pending.              *)
(***************************************************************************)
C11_RetryIsNotReadmitted ==
    [][/\ (Calls("get_next_job") /\ ret'.arg = PENDING) =>
              \A r \in ret'.result : jobs[r.id].status # RETRY
       /\ \A i \in DOMAIN jobs :
              jobs[i].status = RETRY =>
                  /\ i \in DOMAIN jobs'
                  /\ jobs'[i].status # PENDING
                  /\ (Calls("start_job") /\ ret'.arg = i) =>
                         (ret'.result = FALSE /\ jobs' = jobs)
                  /\ jobs'[i].status # RETRY =>
                         (Calls("complete_job") \/ Calls("fail_job"))
       /\ Calls("fail_job") =>
              \A i \in DOMAIN jobs :
                  ret'.arg[1] = i => jobs'[i].status \in {RETRY, FAILED}
      ]_vars

C11_Witness ==
    /\ ret.op = "get_next_job"
    /\ ret.arg = PENDING
    /\ \E i \in DOMAIN jobs :
          /\ jobs[i].status = RETRY
          /\ jobs[i].retry_count > 0
          /\ \A r \in ret.result :
                /\ r.id # i
                /\ jobs[r.id].status = PENDING
                /\ SortsBefore(i, r.id)
    /\ ret.result # {}

(***************************************************************************)
(* C12: after reset_failed_jobs every job that was in retry is pending.    *)
(***************************************************************************)
C12_RequeueReadmitsRetry ==
    [][Calls("reset_failed_jobs") =>
           \A i \in DOMAIN jobs :
               jobs[i].status = RETRY =>
                   (i \in DOMAIN jobs' /\ jobs'[i].status = PENDING)
      ]_vars

(***************************************************************************)
(* C13: reset_failed_jobs makes every failed job pending with retry_count  *)
(* 0 and no error message, leaving the other columns of the row (priority  *)
(* and created_at among them) as they were, returns the number of these    *)
(* jobs, and leaves every job of another status, and the set of jobs,      *)
(* unchanged.                                                              *)
(***************************************************************************)
C13_RequeueFailed ==
    [][Calls("reset_failed_jobs") =>
           /\ DOMAIN jobs' = DOMAIN jobs
           /\ ret'.result = Cardinality({i \in DOMAIN jobs :
                                            jobs[i].status = FAILED})
           /\ \A i \in DOMAIN jobs :
                 IF jobs[i].status = FAILED
                 THEN jobs'[i] = [jobs[i] EXCEPT !.status = PENDING,
                                                 !.retry_count = 0,
                                                 !.error_message = NULL]
                 ELSE jobs'[i] = jobs[i]
      ]_vars

C13_Witness ==
    /\ ret.op = "reset_failed_jobs"
    /\ ret.result = 1
    /\ \E i \in DOMAIN jobs :
          /\ jobs[i].status = PENDING
          /\ jobs[i].retry_count = 0
          /\ jobs[i].error_message = NULL
          /\ jobs[i].completed_at # NoTime
          /\ jobs[i].priority = 1
    /\ \E k \in DOMAIN jobs : jobs[k].status = RETRY

(***************************************************************************)
(* C14: clear_completed_jobs(days_old), for days_old >= 0 and any table,   *)
(* deletes exactly the jobs that are completed or failed and whose         *)
(* completed_at is before now - days_old days, returns the number of jobs  *)
(* deleted, and leaves every other job as it was; a job that is pending,   *)
(* processing or in retry is never deleted, however old its timestamps.    *)
(***************************************************************************)
C14_PurgeOnlyOldFinished ==
    [][Calls("clear_completed_jobs") =>
           LET cutoff == now - ret'.arg * SecondsPerDay
               gone   == (DOMAIN jobs) \ (DOMAIN jobs')
           IN  /\ ret'.arg >= 0
               /\ DOMAIN jobs' \subseteq DOMAIN jobs
               /\ ret'.result = Cardinality(gone)
               /\ \A i \in DOMAIN jobs :
                     /\ i \in gone <=>
                            /\ jobs[i].status \in {COMPLETED, FAILED}
                            /\ jobs[i].completed_at # NoTime
                            /\ jobs[i].completed_at < cutoff
                     /\ i \notin gone => jobs'[i] = jobs[i]
                     /\ jobs[i].status \in {PENDING, PROCESSING, RETRY} =>
                            i \notin gone
      ]_vars

C14_Witness ==
    /\ ret.op = "clear_completed_jobs"
    /\ ret.arg = 1
    /\ ret.result = 1
    /\ \E i \in DOMAIN jobs :
          \/ /\ jobs[i].status \in {COMPLETED, FAILED}
             /\ jobs[i].completed_at = now - SecondsPerDay
          \/ /\ jobs[i].status = PENDING
             /\ jobs[i].completed_at # NoTime
             /\ jobs[i].completed_at < now - SecondsPerDay

(***************************************************************************)
(* C15: clear_completed_jobs(0) deletes every job that is completed or     *)
(* failed when it is called, also one completed at the current instant,    *)
(* and no job that is pending, processing or in retry.                     *)
(***************************************************************************)
C15_PurgeZeroRemovesAllFinished ==
    [][(Calls("clear_completed_jobs") /\ ret'.arg = 0) =>
           \A i \in DOMAIN jobs :
               IF jobs[i].status \in {COMPLETED, FAILED}
               THEN i \notin DOMAIN jobs'
               ELSE i \in DOMAIN jobs'
      ]_vars

(***************************************************************************)
(* C16: while the store is down every method of the queue returns its      *)
(* failure value (False for add_job, start_job, complete_job and fail_job, *)
(* None for get_next_job and get_job_status, 0 for clear_completed_jobs    *)
(* and reset_failed_jobs), the table and the row-id sequence are as they   *)
(* were, and the lock is free afterwards.                                  *)
(***************************************************************************)
C16_FailClosed ==
    [][(~storeUp /\ ~storeUp' /\ now' = now) =>
           /\ jobs' = jobs
           /\ seq' = seq
           /\ ~locked'
           /\ ret'.op \in {"add_job", "start_job", "complete_job", "fail_job",
                           "get_next_job", "get_job_status",
                           "clear_completed_jobs", "reset_failed_jobs"}
           /\ ret'.op \in {"add_job", "start_job", "complete_job", "fail_job"}
                  => ret'.result = FALSE
           /\ ret'.op \in {"get_next_job", "get_job_status"}
                  => ret'.result = {}
           /\ ret'.op \in {"clear_completed_jobs", "reset_failed_jobs"}
                  => ret'.result = 0
      ]_vars

C16_Witness ==
    /\ ~storeUp
    /\ ~locked
    /\ ret.op = "complete_job"
    /\ ret.result = FALSE
    /\ ret.arg \in DOMAIN jobs
    /\ jobs[ret.arg].status = PROCESSING
    /\ \E k \in DOMAIN jobs : jobs[k].status = FAILED

(***************************************************************************)
(* RateLimiter.reset_host_bucket deletes the bucket of the host if it has  *)
(* one.  ResetHostBucketKeeps leaves the bucket in place.                  *)
(* In ResetSpec callers of try_acquire and get_stats name one of two hosts *)
(* and buckets are reset while time passes.  log holds, of the last reset,  *)
(* the tick it was made at, its host, whether the host had a bucket and    *)
(* the level the bucket would have shown.                                  *)
(***************************************************************************)
ResetHostBucketKeeps(lim, host) == lim

ResetHostBucket(lim, host) ==
    [lim EXCEPT !.host_buckets =
         [h \in (DOMAIN @) \ {host} |-> @[h]]]

ResetHosts == {"h1", "h2"}

CallResetHostBucket ==
    /\ \E host \in ResetHosts :
          /\ limiter' = ResetHostBucket(limiter, host)
          /\ ret' = [op |-> "reset_host_bucket", arg |-> <<host>>,
                     result |-> None]
          /\ log' = <<[at    |-> clock,
                       host  |-> host,
                       had   |-> host \in DOMAIN limiter.host_buckets,
                       level |->
                           IF host \in DOMAIN limiter.host_buckets
                           THEN LeakTokens(limiter.host_buckets[host]).tokens
                           ELSE limiter.host_burst * TokenScale]>>
    /\ UNCHANGED <<clock, call>>
    /\ UNCHANGED notLimiter

ResetTryAcquire ==
    /\ \E h \in ResetHosts \cup {None} : TryAcquire(h, 1, None)
    /\ UNCHANGED <<call, log>>
    /\ UNCHANGED notLimiter

ResetGetStats ==
    /\ \E h \in ResetHosts : GetStats(h, None)
    /\ UNCHANGED <<call, log>>
    /\ UNCHANGED notLimiter

ResetNext ==
    \/ ResetTryAcquire
    \/ ResetGetStats
    \/ CallResetHostBucket
    \/ AdvanceClock

ResetSpec == Init /\ [][ResetNext]_vars

(***************************************************************************)
(* Threads in try_acquire(host) and reset_host_bucket(host), statement by  *)
(* statement.  try_acquire: the debit of the global bucket; then           *)
(* _get_host_bucket, which takes self.host_locks[host], looks whether the  *)
(* host has a bucket, makes one if not, reads the bucket of the host from  *)
(* the dictionary and leaves the lock; then the debit of that bucket,      *)
(* under the bucket's own lock.  reset_host_bucket takes the same lock,    *)
(* deletes the bucket of the host if it has one and leaves the lock.       *)
(* The limiter starts with a host burst of 2.                              *)
(* HostLockIgnored: threads enter without looking at the lock.             *)
(***************************************************************************)
RaceConfig == [FastConfig EXCEPT !.per_host.burst_size = 2]

HostLockIgnored(host) == TRUE

HostLockFree(host) == hostLocks[host] = NoThread

Release(t, host) ==
    [hostLocks EXCEPT ![host] = IF @ = t THEN NoThread ELSE @]

Ended(t) == [thr[t] EXCEPT !.op = "idle", !.at = "idle"]

ThreadTryAcquire ==
    /\ \E t \in Threads, host \in RaceHosts :
          /\ thr[t].op = "idle"
          /\ thr' = [thr EXCEPT ![t] =
                        [IdleThread EXCEPT !.op = "try_acquire",
                                           !.at = "global",
                                           !.host = host, !.tokens = 1]]
    /\ UNCHANGED <<heap, hostBuckets, hostLocks, resets>>
    /\ UNCHANGED <<queueVars, extractorVars, rateVars, ret>>

ThreadGlobal ==
    /\ \E t \in Threads :
          /\ thr[t].at = "global"
          /\ LET g == BucketTryAcquire(limiter.global_bucket, thr[t].tokens)
             IN  /\ limiter' = [limiter EXCEPT !.global_bucket = g.bucket]
                 /\ IF g.ok
                    THEN /\ thr' = [thr EXCEPT ![t].at = "lock"]
                         /\ UNCHANGED ret
                    ELSE /\ thr' = [thr EXCEPT ![t] = Ended(t)]
                         /\ ret' = [op |-> "try_acquire",
                                    arg |-> <<thr[t].host, thr[t].tokens,
                                              None>>,
                                    result |-> FALSE]
    /\ UNCHANGED <<heap, hostBuckets, hostLocks, resets>>
    /\ UNCHANGED <<queueVars, extractorVars, clock, call, log>>

ThreadLock ==
    /\ \E t \in Threads :
          /\ thr[t].at = "lock"
          /\ HostLockFree(thr[t].host)
          /\ hostLocks' = [hostLocks EXCEPT ![thr[t].host] = t]
          /\ thr' = [thr EXCEPT ![t].at =
                        IF thr[t].op = "try_acquire"
                        THEN "check" ELSE "delete"]
    /\ UNCHANGED <<heap, hostBuckets, resets>>
    /\ UNCHANGED <<queueVars, extractorVars, rateVars, ret>>

ThreadCheck ==
    /\ \E t \in Threads :
          /\ thr[t].at = "check"
          /\ thr' = [thr EXCEPT ![t].at =
                        IF thr[t].host \in DOMAIN hostBuckets
                        THEN "fetch" ELSE "create"]
    /\ UNCHANGED <<heap, hostBuckets, hostLocks, resets>>
    /\ UNCHANGED <<queueVars, extractorVars, rateVars, ret>>

ThreadCreate ==
    /\ \E t \in Threads :
          /\ thr[t].at = "create"
          /\ heap' = Append(heap,
                         [bucket |-> LeakyBucket(limiter.host_burst,
                                         RatePer(limiter.host_rpm, 60)),
                          debits |-> 0])
          /\ hostBuckets' = Extend(hostBuckets, thr[t].host, Len(heap) + 1)
          /\ thr' = [thr EXCEPT ![t].at = "fetch"]
    /\ UNCHANGED <<hostLocks, resets>>
    /\ UNCHANGED <<queueVars, extractorVars, rateVars, ret>>

ThreadFetch ==
    /\ \E t \in Threads :
          /\ thr[t].at = "fetch"
          /\ hostLocks' = Release(t, thr[t].host)
          /\ IF thr[t].host \in DOMAIN hostBuckets
             THEN /\ thr' = [thr EXCEPT ![t].at = "debit",
                                 ![t].ref = hostBuckets[thr[t].host]]
                  /\ UNCHANGED ret
             ELSE /\ thr' = [thr EXCEPT ![t] = Ended(t)]
                  /\ ret' = [op |-> "try_acquire",
                             arg |-> <<thr[t].host, thr[t].tokens, None>>,
                             result |-> "KeyError"]
    /\ UNCHANGED <<heap, hostBuckets, resets>>
    /\ UNCHANGED <<queueVars, extractorVars, rateVars>>

ThreadDebit ==
    /\ \E t \in Threads :
          /\ thr[t].at = "debit"
          /\ LET r == BucketTryAcquire(heap[thr[t].ref].bucket, thr[t].tokens)
             IN  /\ heap' = [heap EXCEPT ![thr[t].ref] =
                                [bucket |-> r.bucket,
                                 debits |-> @.debits
                                                + (IF r.ok THEN 1 ELSE 0)]]
                 /\ thr' = [thr EXCEPT ![t] =
                               [Ended(t) EXCEPT !.applied =
                                   IF /\ thr[t].host \in DOMAIN hostBuckets
                                      /\ hostBuckets[thr[t].host] = thr[t].ref
                                   THEN "current" ELSE "orphan"]]
                 /\ ret' = [op |-> "try_acquire",
                            arg |-> <<thr[t].host, thr[t].tokens, None>>,
                            result |-> r.ok]
    /\ UNCHANGED <<hostBuckets, hostLocks, resets>>
    /\ UNCHANGED <<queueVars, extractorVars, rateVars>>

ThreadReset ==
    /\ \E t \in Threads, host \in RaceHosts :
          /\ thr[t].op = "idle"
          /\ thr' = [thr EXCEPT ![t] =
                        [IdleThread EXCEPT !.op = "reset_host_bucket",
                                           !.at = "lock", !.host = host]]
    /\ UNCHANGED <<heap, hostBuckets, hostLocks, resets>>
    /\ UNCHANGED <<queueVars, extractorVars, rateVars, ret>>

ThreadDelete ==
    /\ \E t \in Threads :
          /\ thr[t].at = "delete"
          /\ hostLocks' = Release(t, thr[t].host)
          /\ ret' = [op |-> "reset_host_bucket", arg |-> <<thr[t].host>>,
                     result |-> None]
          /\ IF thr[t].host \in DOMAIN hostBuckets
             THEN /\ hostBuckets' =
                         [h \in (DOMAIN hostBuckets) \ {thr[t].host} |->
                             hostBuckets[h]]
                  /\ resets' = resets + 1
                  /\ thr' = [u \in Threads |->
                                IF u = t
                                THEN Ended(t)
                                ELSE IF /\ thr[u].at = "debit"
                                        /\ thr[u].ref
                                               = hostBuckets[thr[t].host]
                                     THEN [thr[u] EXCEPT !.stale = TRUE]
                                     ELSE thr[u]]
             ELSE /\ thr' = [thr EXCEPT ![t] = Ended(t)]
                  /\ UNCHANGED <<hostBuckets, resets>>
    /\ UNCHANGED heap
    /\ UNCHANGED <<queueVars, extractorVars, rateVars>>

RaceInit ==
    /\ InitQueue
    /\ InitLimiter(RaceConfig)
    /\ InitRace
    /\ InitExtractor

RaceNext ==
    \/ ThreadTryAcquire
    \/ ThreadGlobal
    \/ ThreadLock
    \/ ThreadCheck
    \/ ThreadCreate
    \/ ThreadFetch
    \/ ThreadDebit
    \/ ThreadReset
    \/ ThreadDelete

RaceSpec == RaceInit /\ [][RaceNext]_vars

(***************************************************************************)
(* Threads in LeakyBucket.try_acquire on one bucket, statement by          *)
(* statement: `with self.lock`, which a thread passes when no thread holds *)
(* the lock of the bucket; _leak_tokens; the test self.tokens >= tokens,   *)
(* which returns False and leaves the lock when the bucket is short; and   *)
(* self.tokens -= tokens, which returns True and leaves the lock.  The     *)
(* bucket is heap[1], with its lock and the number of tokens it has        *)
(* granted (debits); it has a capacity of 2 tokens and refills at 5 tokens *)
(* per second, while time passes.                                          *)
(* BucketLockIgnored: threads enter without looking at the lock.           *)
(***************************************************************************)
BucketLockIgnored(i) == TRUE

BucketLockFree(i) == heap[i].lock = NoThread

BucketCall ==
    /\ \E t \in Threads, tokens \in TokenArgs :
          /\ thr[t].op = "idle"
          /\ thr' = [thr EXCEPT ![t] =
                        [IdleThread EXCEPT !.op = "LeakyBucket.try_acquire",
                                           !.at = "lock",
                                           !.tokens = tokens, !.ref = 1]]
    /\ UNCHANGED <<heap, hostBuckets, hostLocks, resets>>
    /\ UNCHANGED <<queueVars, extractorVars, rateVars, ret>>

BucketLock ==
    /\ \E t \in Threads :
          /\ thr[t].op = "LeakyBucket.try_acquire"
          /\ thr[t].at = "lock"
          /\ BucketLockFree(thr[t].ref)
          /\ heap' = [heap EXCEPT ![thr[t].ref].lock = t]
          /\ thr' = [thr EXCEPT ![t].at = "leak"]
    /\ UNCHANGED <<hostBuckets, hostLocks, resets>>
    /\ UNCHANGED <<queueVars, extractorVars, rateVars, ret>>

BucketLeak ==
    /\ \E t \in Threads :
          /\ thr[t].at = "leak"
          /\ heap' = [heap EXCEPT ![thr[t].ref].bucket = LeakTokens(@)]
          /\ thr' = [thr EXCEPT ![t].at = "test"]
    /\ UNCHANGED <<hostBuckets, hostLocks, resets>>
    /\ UNCHANGED <<queueVars, extractorVars, rateVars, ret>>

BucketTest ==
    /\ \E t \in Threads :
          /\ thr[t].at = "test"
          /\ IF heap[thr[t].ref].bucket.tokens >= thr[t].tokens * TokenScale
             THEN /\ thr' = [thr EXCEPT ![t].at = "subtract"]
                  /\ UNCHANGED <<heap, ret>>
             ELSE /\ thr' = [thr EXCEPT ![t] = Ended(t)]
                  /\ heap' = [heap EXCEPT ![thr[t].ref].lock =
                                  IF @ = t THEN NoThread ELSE @]
                  /\ ret' = [op |-> "LeakyBucket.try_acquire",
                             arg |-> <<thr[t].tokens>>, result |-> FALSE]
    /\ UNCHANGED <<hostBuckets, hostLocks, resets>>
    /\ UNCHANGED <<queueVars, extractorVars, rateVars>>

BucketSubtract ==
    /\ \E t \in Threads :
          /\ thr[t].at = "subtract"
          /\ heap' = [heap EXCEPT
                          ![thr[t].ref].bucket.tokens =
                              @ - thr[t].tokens * TokenScale,
                          ![thr[t].ref].debits = @ + thr[t].tokens,
                          ![thr[t].ref].lock =
                              IF @ = t THEN NoThread ELSE @]
          /\ thr' = [thr EXCEPT ![t] = Ended(t)]
          /\ ret' = [op |-> "LeakyBucket.try_acquire",
                     arg |-> <<thr[t].tokens>>, result |-> TRUE]
    /\ UNCHANGED <<hostBuckets, hostLocks, resets>>
    /\ UNCHANGED <<queueVars, extractorVars, rateVars>>

BucketInit ==
    /\ InitQueue
    /\ InitLimiter(FastConfig)
    /\ InitExtractor
    /\ heap = <<[bucket |-> LeakyBucket(2, RatePer(300, 60)),
                 debits |-> 0,
                 lock   |-> NoThread]>>
    /\ hostBuckets = [h \in {} |-> NoBucket]
    /\ hostLocks = [h \in RaceHosts |-> NoThread]
    /\ thr = [t \in Threads |-> IdleThread]
    /\ resets = 0

BucketNext ==
    \/ BucketCall
    \/ BucketLock
    \/ BucketLeak
    \/ BucketTest
    \/ BucketSubtract
    \/ AdvanceClock

BucketSpec == BucketInit /\ [][BucketNext]_vars

(***************************************************************************)
(* AdaptiveExtractor.  A selector is named by the place of its first       *)
(* occurrence in selector_library["conversation_links"]: the list has 20   *)
(* entries, of which the 13th, 14th and 15th repeat the 9th, 10th and 1st. *)
(***************************************************************************)
SelectorLibrary ==
    <<1, 2, 3, 4, 5, 6, 7, 8, 9, 10, 11, 12, 9, 10, 1, 16, 17, 18, 19, 20>>

(***************************************************************************)
(* An element the driver finds: href is n for a link to ".../c/n", 0 for a *)
(* link to a place without "/c/", and the element's text.  For a span the  *)
(* href is that of its parent.  An element counts when it has an href with *)
(* "/c/" in it and a text that is not empty.                               *)
(***************************************************************************)
Link(n) == [href |-> n, text |-> "title"]
Untitled(n) == [href |-> n, text |-> ""]
Elsewhere == [href |-> 0, text |-> "title"]

ValidElement(e) == e.href > 0 /\ e.text # ""

Conversation(e) == [id |-> e.href, title |-> e.text, url |-> e.href]

(***************************************************************************)
(* A document as the driver shows it: whether the driver fails at once     *)
(* (dead); the selectors that find its elements (matching), every other    *)
(* selector finding nothing; the elements found after 0, 1, 2, ... scrolls *)
(* (frames), the last frame staying once the scrolls go beyond it; the     *)
(* selectors whose elements are gone again when the scrolling starts       *)
(* (gone); and the elements find_elements(By.TAG_NAME, "a") returns        *)
(* (links).  fault tells where the driver raises: find_elements raises in  *)
(* the test of fault.selector (pass 0) or in pass fault.pass of the        *)
(* scrolling with it, and when the fault is lasting every driver call      *)
(* after that one raises as well.  An element whose attributes cannot be   *)
(* read (Stale) raises when it is looked at.                               *)
(***************************************************************************)
NoFault == [selector |-> 0, pass |-> 0, lasting |-> FALSE]

Stale == [href |-> -1, text |-> ""]

FrameAt(frames, k) ==
    IF frames = <<>> THEN <<>>
    ELSE frames[IF k <= Len(frames) THEN k ELSE Len(frames)]

(***************************************************************************)
(* selectors_to_try = [s for s in selectors_to_try                         *)
(*                     if not (s in seen or seen.add(s))]                  *)
(* KeepDuplicates: the list as it is.                                      *)
(***************************************************************************)
RECURSIVE RemoveDuplicatesFrom(_, _, _)
RemoveDuplicatesFrom(list, i, seen) ==
    IF i > Len(list)
    THEN <<>>
    ELSE IF list[i] \in seen
         THEN RemoveDuplicatesFrom(list, i + 1, seen)
         ELSE <<list[i]>> \o
                  RemoveDuplicatesFrom(list, i + 1, seen \cup {list[i]})

KeepDuplicates(list) == list

RemoveDuplicates(list) == RemoveDuplicatesFrom(list, 1, {})

SelectorsToTry(cached) == RemoveDuplicates(cached \o SelectorLibrary)

(***************************************************************************)
(* _test_selector: the valid elements among those the selector finds, and  *)
(* none when find_elements raises.                                         *)
(***************************************************************************)
TestSelector(doc, selector) ==
    IF doc.dead \/ (doc.fault.selector = selector /\ doc.fault.pass = 0)
    THEN <<>>
    ELSE IF selector \in doc.matching
         THEN SelectSeq(FrameAt(doc.frames, 1), ValidElement)
         ELSE <<>>

(***************************************************************************)
(* _extract_conversations_with_scrolling.  One pass over the elements of   *)
(* a frame adds the conversations whose href has not been seen; the loop   *)
(* stops at max_scroll_attempts, after 3 passes in a row without a new     *)
(* conversation, or after a pass without one once more than 10 attempts    *)
(* have been made.                                                         *)
(* The values returned with the conversations are those the locals        *)
(* scroll_attempts and no_new_conversations_count have when the loop ends. *)
(* NeverSeen: the test `href not in seen_urls` left out.                   *)
(* WithinCapOrAtIt: the loop condition with <= for <.                      *)
(***************************************************************************)
MaxScrollAttempts == 50
StabilityWindow == 3
SafetyAttempts == 10

NeverSeen(href, seen_urls) == TRUE

WithinCapOrAtIt(scroll_attempts) == scroll_attempts <= MaxScrollAttempts

WithinCap(scroll_attempts) == scroll_attempts < MaxScrollAttempts

NotSeen(href, seen_urls) == href \notin seen_urls

RECURSIVE Pass(_, _, _)
Pass(elements, i, acc) ==
    IF i > Len(elements)
    THEN acc
    ELSE IF ValidElement(elements[i])
            /\ NotSeen(elements[i].href, acc.seen_urls)
         THEN Pass(elements, i + 1,
                   [conversations |->
                        Append(acc.conversations, Conversation(elements[i])),
                    seen_urls |-> acc.seen_urls \cup {elements[i].href},
                    new_conversations |-> acc.new_conversations + 1])
         ELSE Pass(elements, i + 1, acc)

RECURSIVE ScrollLoop(_, _, _, _, _, _, _)
ScrollLoop(frames, raises_at, conversations, seen_urls, scroll_attempts, last_count, no_new_conversations_count) ==
    IF ~WithinCap(scroll_attempts)
    THEN [raised |-> FALSE,
          conversations |-> conversations,
          scroll_attempts |-> scroll_attempts,
          no_new_conversations_count |-> no_new_conversations_count]
    ELSE IF scroll_attempts + 1 = raises_at
    THEN [raised |-> TRUE,
          conversations |-> conversations,
          scroll_attempts |-> scroll_attempts,
          no_new_conversations_count |-> no_new_conversations_count]
    ELSE LET pass == Pass(FrameAt(frames, scroll_attempts + 1), 1,
                          [conversations |-> conversations,
                           seen_urls |-> seen_urls,
                           new_conversations |-> 0])
             count == IF pass.new_conversations = 0
                      THEN no_new_conversations_count + 1
                      ELSE 0
             attempts == scroll_attempts + 1
         IN  IF pass.new_conversations = 0 /\ count >= StabilityWindow
             THEN [raised |-> FALSE,
                   conversations |-> pass.conversations,
                   scroll_attempts |-> scroll_attempts,
                   no_new_conversations_count |-> count]
             ELSE IF /\ Len(pass.conversations) = last_count
                     /\ attempts > SafetyAttempts
                  THEN [raised |-> FALSE,
                        conversations |-> pass.conversations,
                        scroll_attempts |-> attempts,
                        no_new_conversations_count |-> count]
                  ELSE ScrollLoop(frames, raises_at, pass.conversations,
                                  pass.seen_urls, attempts,
                                  Len(pass.conversations), count)

ExtractConversationsWithScrolling(doc, selector) ==
    ScrollLoop(IF selector \in doc.matching \ doc.gone
               THEN doc.frames ELSE <<>>,
               IF doc.dead THEN 1
               ELSE IF doc.fault.selector = selector THEN doc.fault.pass
               ELSE 0,
               <<>>, {}, 0, 0, 0)

(***************************************************************************)
(* _fallback_extraction: every link with an href with "/c/" in it and a    *)
(* text; none when find_elements raises.                                   *)
(* FallbackExtractionAnyLink: a conversation for every link there is.      *)
(***************************************************************************)
FallbackExtractionAnyLink(doc) ==
    IF doc.dead
    THEN <<>>
    ELSE [i \in DOMAIN doc.links |-> Conversation(doc.links[i])]

FallbackExtraction(doc) ==
    LET valid == SelectSeq(doc.links, ValidElement)
    IN  IF doc.dead
        THEN <<>>
        ELSE [i \in DOMAIN valid |-> Conversation(valid[i])]

(***************************************************************************)
(* One trial in the loop of get_conversation_list: the conversations the   *)
(* scrolling returns when the test found valid elements, and none when the *)
(* test found none or the scrolling raised.                                *)
(* TrialOutcomeKeepsCollected: what the scrolling had collected counts     *)
(* when it raised.                                                         *)
(***************************************************************************)
TrialOutcomeKeepsCollected(elements, found) ==
    IF elements # <<>> THEN found.conversations ELSE <<>>

TrialOutcome(elements, found) ==
    IF elements # <<>> /\ ~found.raised THEN found.conversations ELSE <<>>

(***************************************************************************)
(* The loop of get_conversation_list over selectors_to_try from place i;   *)
(* tried is the list of selectors tested before.  The first selector that  *)
(* finds valid elements and extracts at least one conversation ends the    *)
(* loop.  A selector whose test or whose scrolling raises is passed over   *)
(* like one that finds nothing, whatever the scrolling had collected; and  *)
(* after a lasting fault every later test and the fallback find nothing.   *)
(***************************************************************************)
RECURSIVE TrySelectors(_, _, _, _)
TrySelectors(doc, order, i, tried) ==
    IF i > Len(order)
    THEN [tried |-> tried, selected |-> {}, scroll_attempts |-> 0,
          no_new_conversations_count |-> 0,
          conversations |-> FallbackExtraction(doc)]
    ELSE LET selector == order[i]
             elements == TestSelector(doc, selector)
             found == ExtractConversationsWithScrolling(doc, selector)
             raised ==
                 /\ doc.fault.selector = selector
                 /\ doc.fault.pass = 0 \/ (elements # <<>> /\ found.raised)
             after ==
                 IF raised /\ doc.fault.lasting
                 THEN [doc EXCEPT !.dead = TRUE]
                 ELSE doc
         IN  IF TrialOutcome(elements, found) # <<>>
             THEN [tried |-> Append(tried, selector),
                   selected |-> {selector},
                   scroll_attempts |-> found.scroll_attempts,
                   no_new_conversations_count |->
                       found.no_new_conversations_count,
                   conversations |-> found.conversations]
             ELSE TrySelectors(after, order, i + 1, Append(tried, selector))

(***************************************************************************)
(* get_conversation_list on a document.  A selector that extracted and is  *)
(* not in the cache is put at its front and the cache is saved; the save   *)
(* writes the file or, when the write fails, leaves it as it is.  With a   *)
(* dead driver the call returns [] at once.                                *)
(***************************************************************************)
GetConversationList(doc, writable) ==
    IF doc.dead
    THEN /\ ret' = [op |-> "get_conversation_list", arg |-> doc,
                    result |-> <<>>]
         /\ last' = NoCall
         /\ UNCHANGED <<cache, disk>>
    ELSE LET run == TrySelectors(doc, SelectorsToTry(cache), 1, <<>>)
             promote ==
                 /\ run.selected # {}
                 /\ \A selector \in run.selected :
                        \A i \in DOMAIN cache : cache[i] # selector
             promoted == <<CHOOSE selector \in run.selected : TRUE>> \o cache
         IN  /\ ret' = [op |-> "get_conversation_list", arg |-> doc,
                        result |-> run.conversations]
             /\ last' = [tried |-> run.tried, selected |-> run.selected,
                         scroll_attempts |-> run.scroll_attempts,
                         no_new_conversations_count |->
                             run.no_new_conversations_count]
             /\ cache' = IF promote THEN promoted ELSE cache
             /\ disk' = IF promote /\ writable THEN promoted ELSE disk

(***************************************************************************)
(* AdaptiveExtractor.__init__: a new extractor loads the cache file, and   *)
(* starts with no selectors when there is none.                            *)
(***************************************************************************)
LoadSelectorCache == IF disk = NoFile THEN <<>> ELSE disk

Construct ==
    /\ cache' = LoadSelectorCache
    /\ UNCHANGED <<disk, last, ret>>
    /\ UNCHANGED <<queueVars, rateVars, raceVars>>

(***************************************************************************)
(* Documents in which one or two selectors match, or none, with and        *)
(* without links for the fallback, one whose elements are gone when the    *)
(* scrolling starts, and a dead driver.                                    *)
(***************************************************************************)
Document(matching, frames) ==
    [dead |-> FALSE, matching |-> matching, frames |-> frames,
     gone |-> {}, links |-> FrameAt(frames, Len(frames)), fault |-> NoFault]

OnePage == << <<Link(1), Link(2)>> >>

Documents ==
    { Document({m}, OnePage) : m \in {2, 7, 9, 16} }
        \cup { Document({2, 7}, OnePage),
               Document({}, OnePage),
               Document({}, <<>>),
               [Document({2, 7}, OnePage) EXCEPT !.gone = {2}],
               [Document({}, <<>>) EXCEPT !.dead = TRUE] }

CallGetConversationList ==
    /\ \E doc \in Documents, writable \in BOOLEAN :
          GetConversationList(doc, writable)
    /\ UNCHANGED <<queueVars, rateVars, raceVars>>

DiscoverNext ==
    \/ CallGetConversationList
    \/ Construct

DiscoverSpec == Init /\ [][DiscoverNext]_vars

(***************************************************************************)
(* _extract_conversations_with_scrolling called on sources of its own: all *)
(* sources of up to MaxFrames frames taken from a few lists of elements    *)
(* (with repeated, untitled and foreign links and a link that comes back   *)
(* under another title), sources that show a fixed number of links more    *)
(* after every scroll, for a number of scrolls, and sources that show one  *)
(* link at a time, another one after every scroll.                         *)
(***************************************************************************)
MaxFrames == 3

Renamed(n) == [href |-> n, text |-> "renamed"]

RECURSIVE Links(_, _)
Links(from, to) ==
    IF from > to THEN <<>> ELSE <<Link(from)>> \o Links(from + 1, to)

FrameChoices ==
    { <<>>,
      <<Link(1)>>,
      <<Link(2), Link(1), Link(2)>>,
      <<Untitled(3), Elsewhere, Link(3), Renamed(1)>>,
      <<Link(1), Link(2), Link(3), Link(4)>> }

Growing(first, more, scrolls) ==
    [k \in 1..(scrolls + 1) |-> Links(1, first + more * (k - 1))]

Sliding(scrolls) == [k \in 1..(scrolls + 1) |-> <<Link(k)>>]

Sources ==
    UNION { [1..n -> FrameChoices] : n \in 1..MaxFrames }
        \cup { Growing(0, 3, 2), Growing(3, 3, 2), Growing(1, 1, 11),
               Sliding(12), Sliding(60) }

CallExtractWithScrolling ==
    /\ \E frames \in Sources :
          LET doc == Document({1}, frames)
              found == ExtractConversationsWithScrolling(doc, 1)
          IN  /\ ret' = [op |-> "_extract_conversations_with_scrolling",
                         arg |-> doc, result |-> found.conversations]
              /\ last' = [tried |-> <<>>, selected |-> {1},
                          scroll_attempts |-> found.scroll_attempts,
                          no_new_conversations_count |->
                              found.no_new_conversations_count]
    /\ UNCHANGED <<cache, disk>>
    /\ UNCHANGED <<queueVars, rateVars, raceVars>>

ScrollNext == CallExtractWithScrolling

ScrollSpec == Init /\ [][ScrollNext]_vars

(***************************************************************************)
(* get_conversation_list on drivers that raise: a fault in the test or in  *)
(* one of the first passes of the scrolling with a selector that matches,  *)
(* passing or lasting, with and without another selector that matches; and *)
(* on documents that only the fallback can read: with a link twice, with   *)
(* links that do not count, with no links; and on a dead driver.           *)
(***************************************************************************)
TwoPages == << <<Link(1), Link(2)>>, <<Stale, Link(1), Link(2), Link(3)>> >>

Faulty(matching, selector, pass, lasting) ==
    [Document(matching, TwoPages) EXCEPT
         !.fault = [selector |-> selector, pass |-> pass,
                    lasting |-> lasting]]

Drivers ==
    { Faulty(matching, 2, pass, lasting) :
          matching \in {{2}, {2, 7}}, pass \in 0..3, lasting \in BOOLEAN }
        \cup { [Document({}, <<>>) EXCEPT !.links = links] :
                   links \in { <<Link(1), Renamed(1)>>,
                               <<Link(1), Elsewhere, Untitled(2), Stale,
                                 Link(3)>>,
                               <<>> } }
        \cup { Document({7}, TwoPages),
               Document({16}, TwoPages),
               [Document({2}, TwoPages) EXCEPT !.dead = TRUE] }

CallGetConversationListOnDriver ==
    /\ \E doc \in Drivers, writable \in BOOLEAN :
          GetConversationList(doc, writable)
    /\ UNCHANGED <<queueVars, rateVars, raceVars>>

DriverNext ==
    \/ CallGetConversationListOnDriver
    \/ Construct

DriverSpec == Init /\ [][DriverNext]_vars

(***************************************************************************)
(* A step is a call of op on the rate limiter when it leaves the clock of  *)
(* the limiter alone and the value returned last is one of op.  Refilled   *)
(* is the level a bucket has at the current tick from refill alone, and    *)
(* HostLevel that of the bucket of a host, which is full when the host has *)
(* no bucket yet.                                                          *)
(***************************************************************************)
RateCalls(op) == clock' = clock /\ ret'.op = op

Refilled(b) ==
    Min(b.capacity, b.tokens + (clock - b.last_update) * b.leak_rate)

HostLevel(host) ==
    IF host \in DOMAIN limiter.host_buckets
    THEN Refilled(limiter.host_buckets[host])
    ELSE limiter.host_burst * TokenScale

ModelKeys(model) ==
    IF model \in ChatgptModels
    THEN {model}
    ELSE IF /\ model = "gpt4o_mini"
            /\ limiter.chatgpt_config.gpt4o_mini.auto_throttle
         THEN {limiter.chatgpt_config.gpt4o_mini.fallback_to}
         ELSE {}

(***************************************************************************)
(* Time without a horizon.  Only differences of clock readings enter the   *)
(* program (time_passed, the elapsed part of the timeout, the length of a  *)
(* sleep), so a tick that passes is the same as every recorded reading     *)
(* moving one tick into the past while clock stays.  The readings are kept *)
(* in a finite range without changing any difference the program can tell  *)
(* apart: a bucket that is full by now is written as full and updated now, *)
(* an elapsed time beyond the timeout stays one tick beyond it, and a      *)
(* sleep that is over stays over.                                          *)
(***************************************************************************)
Max(a, b) == IF a >= b THEN a ELSE b

Aged(b) ==
    LET older == [b EXCEPT !.last_update = @ - 1]
    IN  IF Refilled(older) = b.capacity
        THEN [b EXCEPT !.tokens = b.capacity, !.last_update = clock]
        ELSE older

TimePasses ==
    /\ limiter' =
           [limiter EXCEPT
               !.global_bucket = Aged(@),
               !.host_buckets = [h \in DOMAIN @ |-> Aged(@[h])],
               !.chatgpt_buckets = [m \in DOMAIN @ |-> Aged(@[m])]]
    /\ call' =
           IF call.op = "idle"
           THEN call
           ELSE [call EXCEPT
                    !.start_time =
                        IF call.timeout = NoTimeout
                        THEN @
                        ELSE Max(@ - 1, clock - call.timeout - 1),
                    !.wake = Max(@ - 1, clock)]
    /\ UNCHANGED <<clock, ret, log>>
    /\ UNCHANGED notLimiter

(***************************************************************************)
(* One caller that waits or backs off, alone, with threads that are always *)
(* scheduled again and time that always passes: weak fairness of every     *)
(* step of the call and of the passing of time.                            *)
(***************************************************************************)
LiveWaitArgs == WaitArgs \cup { <<"h1", 2, NoTimeout, None>> }

LiveCallWaitForTokens ==
    /\ \E a \in LiveWaitArgs : WaitForTokensCall(a[1], a[2], a[3], a[4])
    /\ UNCHANGED notLimiter

LiveNext ==
    \/ LiveCallWaitForTokens
    \/ WaitTry
    \/ WaitCheck
    \/ WaitWake
    \/ CallAcquireWithBackoff
    \/ BackoffTry
    \/ BackoffWake
    \/ TimePasses

LiveSpec ==
    /\ Init
    /\ [][LiveNext]_vars
    /\ WF_vars(WaitTry)
    /\ WF_vars(WaitCheck)
    /\ WF_vars(WaitWake)
    /\ WF_vars(BackoffTry)
    /\ WF_vars(BackoffWake)
    /\ WF_vars(TimePasses)

(***************************************************************************)
(* C18: try_acquire(host, tokens, model) returns true only if the global   *)
(* bucket, the bucket of the host when a host is named, and the bucket of  *)
(* the model when a model with a bucket is named, each hold at least       *)
(* tokens after refill at the time of the call; after a true result each   *)
(* of these buckets holds its refilled level less tokens, and every other  *)
(* bucket is exactly as it was.                                            *)
(***************************************************************************)
C18_TrueMeansAllDebited ==
    [][(RateCalls("try_acquire") /\ ret'.result = TRUE) =>
           LET host   == ret'.arg[1]
               need   == ret'.arg[2] * TokenScale
               model  == ret'.arg[3]
               hosts  == IF host = None THEN {} ELSE {host}
               keys   == IF model = None THEN {} ELSE ModelKeys(model)
           IN  /\ Refilled(limiter.global_bucket) >= need
               /\ limiter'.global_bucket.tokens =
                      Refilled(limiter.global_bucket) - need
               /\ DOMAIN limiter'.host_buckets =
                      (DOMAIN limiter.host_buckets) \cup hosts
               /\ \A h \in DOMAIN limiter'.host_buckets :
                     IF h \in hosts
                     THEN /\ HostLevel(h) >= need
                          /\ limiter'.host_buckets[h].tokens =
                                 HostLevel(h) - need
                     ELSE limiter'.host_buckets[h] = limiter.host_buckets[h]
               /\ \A k \in ChatgptModels :
                     IF k \in keys
                     THEN /\ Refilled(limiter.chatgpt_buckets[k]) >= need
                          /\ limiter'.chatgpt_buckets[k].tokens =
                                 Refilled(limiter.chatgpt_buckets[k]) - need
                     ELSE limiter'.chatgpt_buckets[k] =
                              limiter.chatgpt_buckets[k]
      ]_vars

C18_Witness ==
    /\ ret.op = "try_acquire"
    /\ ret.result = TRUE
    /\ ret.arg = <<"h1", 1, "gpt4o_mini">>
    /\ limiter.chatgpt_config.gpt4o_mini.auto_throttle
    /\ limiter.global_bucket.tokens = TokenScale
    /\ limiter.host_buckets["h1"].tokens = 0
    /\ limiter.chatgpt_buckets["gpt4o"].tokens = 0
    /\ limiter.chatgpt_buckets["gpt45"].tokens = TokenScale
    /\ clock > 0

(***************************************************************************)
(* C19: whenever try_acquire returns false no bucket has been debited:     *)
(* the level of every bucket at the time of the call is the one it has     *)
(* from refill alone.                                                      *)
(***************************************************************************)
C19_FalseMeansNoneDebited ==
    [][(RateCalls("try_acquire") /\ ret'.result = FALSE) =>
           /\ Refilled(limiter'.global_bucket) =
                  Refilled(limiter.global_bucket)
           /\ \A h \in DOMAIN limiter'.host_buckets :
                 Refilled(limiter'.host_buckets[h]) = HostLevel(h)
           /\ \A k \in ChatgptModels :
                 Refilled(limiter'.chatgpt_buckets[k]) =
                     Refilled(limiter.chatgpt_buckets[k])
      ]_vars

(***************************************************************************)
(* C20: of the calls try_acquire(tokens=1) made on a full bucket of        *)
(* capacity C with no time passing, the first C return true and the next   *)
(* one returns false; after that failure a call returns true only when at  *)
(* least the time the bucket needs to gain one token (1/r seconds) has     *)
(* passed since the burst, and the first call made from then on does       *)
(* return true.  The bucket is full at tick 0, when it is constructed.     *)
(***************************************************************************)
C20_BurstThenRefill ==
    LET C        == BurstCapacity
        interval == TokenInterval(limiter.global_bucket)
        burst(k) == \A j \in 1..k : log[j].at = 0
    IN  /\ \A k \in 1..Len(log) :
              (k <= C + 1 /\ burst(k)) => (log[k].ok <=> k <= C)
        /\ (Len(log) > C + 1 /\ burst(C + 1)) =>
               \A k \in (C + 2)..Len(log) :
                   /\ log[k].ok => log[k].at >= interval
                   /\ (/\ log[k].at >= interval
                       /\ \A j \in (C + 2)..(k - 1) : log[j].at < interval)
                          => log[k].ok

C20_Witness ==
    /\ BurstCapacity = 5
    /\ limiter.global_bucket.leak_rate = 1
    /\ Len(log) = 8
    /\ \A k \in 1..6 : log[k].at = 0 /\ (log[k].ok <=> k <= 5)
    /\ log[7] = [at |-> TicksPerSecond \div 2, ok |-> FALSE]
    /\ log[8] = [at |-> TicksPerSecond, ok |-> TRUE]

(***************************************************************************)
(* C17: every bucket, the global one, the one of every host and the one of *)
(* every model, holds at least 0 and at most capacity tokens in every      *)
(* reachable state, whatever calls of try_acquire, wait_for_tokens,        *)
(* acquire_with_backoff and get_stats with tokens >= 1 were made and       *)
(* however much time passed between them.                                  *)
(***************************************************************************)
C17_TokensWithinCapacity ==
    LET within(b) == 0 <= b.tokens /\ b.tokens <= b.capacity
    IN  /\ within(limiter.global_bucket)
        /\ \A h \in DOMAIN limiter.host_buckets :
              within(limiter.host_buckets[h])
        /\ \A m \in DOMAIN limiter.chatgpt_buckets :
              within(limiter.chatgpt_buckets[m])

C17_Witness ==
    /\ ret.op = "wait_for_tokens"
    /\ ret.result = TRUE
    /\ ret.arg = <<"h1", 1, 2, "gpt4o">>
    /\ limiter.host_buckets["h1"].tokens = 0
    /\ limiter.chatgpt_buckets["gpt4o"].tokens = 0
    /\ limiter.chatgpt_buckets["gpt4o"].last_update > 1
    /\ limiter.chatgpt_buckets["gpt45"].tokens =
           limiter.chatgpt_buckets["gpt45"].capacity
    /\ limiter.chatgpt_buckets["gpt45"].last_update > 0
    /\ limiter.global_bucket.tokens < limiter.global_bucket.capacity

(***************************************************************************)
(* C21: a bucket that was emptied at tick t and has had no acquisition     *)
(* since holds min(capacity, (now - t) * leak_rate) tokens, so capacity    *)
(* from capacity / leak_rate seconds on and never more; and a              *)
(* wait_for_tokens call for at most capacity tokens with a timeout of at   *)
(* least that time does not return false.                                  *)
(***************************************************************************)
C21_RefillAndWait ==
    (log # <<>> /\ log[1].ok) =>
        LET b == limiter.global_bucket
        IN  /\ ret.op = "try_acquire" =>
                   /\ Refilled(b) =
                          Min(b.capacity, (clock - log[1].at) * b.leak_rate)
                   /\ clock - log[1].at >= RefillTicks(b) =>
                          Refilled(b) = b.capacity
            /\ ret.op = "wait_for_tokens" => ret.result = TRUE

(***************************************************************************)
(* C22: every call of wait_for_tokens and of acquire_with_backoff returns: *)
(* whenever a call is under way, a state follows in which it is not.       *)
(***************************************************************************)
C22_CallsReturn == (call.op # "idle") ~> (call.op = "idle")

(***************************************************************************)
(* C23: wait_for_tokens returns True only in a step in which try_acquire   *)
(* over the same host and model succeeds, and returns False only when its  *)
(* timeout has elapsed: it has a timeout, and at least that much time has  *)
(* passed since the call began.                                            *)
(***************************************************************************)
C23_WaitGivesUpOnlyAtTimeout ==
    [][(call.op = "wait_for_tokens" /\ call'.op = "idle") =>
           IF ret'.result
           THEN TryAcquireOn(limiter, call.host, call.tokens, call.model).ok
           ELSE /\ call.timeout # NoTimeout
                /\ clock - call.start_time >= call.timeout]_vars

(***************************************************************************)
(* C24: acquire_with_backoff makes at most max_retries + 1 attempts,       *)
(* numbered from 0.  An attempt that succeeds returns True at once.  A     *)
(* failed attempt that is not the last is followed by a sleep of           *)
(* base_delay * 2 ^ attempt, and the next attempt comes only when that     *)
(* time is over; the last failed attempt returns False without a sleep.    *)
(* False is returned only by the last attempt, and the call never turns    *)
(* into a wait_for_tokens.                                                 *)
(***************************************************************************)
C24_BackoffAttempts ==
    [][call.op = "acquire_with_backoff" =>
           LET returned == call'.op = "idle" /\ ret'.op = "acquire_with_backoff"
               ok == TryAcquireOn(limiter, call.host, call.tokens,
                                  call.model).ok
           IN  /\ call.attempt <= call.max_retries
               /\ call'.op \in {"acquire_with_backoff", "idle"}
               /\ (call.at = "try" /\ call' # call) =>
                      IF ok
                      THEN returned /\ ret'.result = TRUE
                      ELSE IF call.attempt < call.max_retries
                           THEN /\ call'.op = "acquire_with_backoff"
                                /\ call'.at = "sleep"
                                /\ call'.attempt = call.attempt
                                /\ call'.wake - clock =
                                       call.base_delay * 2 ^ call.attempt
                           ELSE returned /\ ret'.result = FALSE
               /\ (call.at = "sleep" /\ call' # call) =>
                      /\ clock >= call.wake
                      /\ call'.at = "try"
                      /\ call'.attempt = call.attempt + 1
               /\ (returned /\ ret'.result = FALSE) =>
                      call.attempt = call.max_retries]_vars

C24_Witness ==
    /\ ret.op = "acquire_with_backoff"
    /\ ret.result = FALSE
    /\ ret.arg[3] = 2
    /\ clock >= ret.arg[4] * (2 ^ 0 + 2 ^ 1)

(***************************************************************************)
(* C25: in try_acquire a model that has a bucket uses that bucket;         *)
(* gpt4o_mini uses the bucket named by fallback_to exactly when its        *)
(* auto_throttle is set; with any other model the call returns and leaves  *)
(* the limiter as the same call without a model does.  When a bucket is    *)
(* used and the global and host buckets grant the tokens, the call returns *)
(* whether that bucket holds the tokens and takes them from it if so, and  *)
(* no other model bucket changes.                                          *)
(***************************************************************************)
C25_ModelKeyResolution ==
    [][RateCalls("try_acquire") =>
           LET host   == ret'.arg[1]
               tokens == ret'.arg[2]
               model  == ret'.arg[3]
               plain  == TryAcquireOn(limiter, host, tokens, None)
           IN  IF ModelKeys(model) = {} \/ ~plain.ok
               THEN /\ ret'.result = plain.ok
                    /\ limiter' = plain.limiter
               ELSE LET key == CHOOSE k \in ModelKeys(model) : TRUE
                        had == Refilled(limiter.chatgpt_buckets[key])
                    IN  /\ ret'.result = (had >= tokens * TokenScale)
                        /\ limiter'.global_bucket = plain.limiter.global_bucket
                        /\ limiter'.host_buckets = plain.limiter.host_buckets
                        /\ \A k \in ChatgptModels \ {key} :
                               limiter'.chatgpt_buckets[k]
                                   = limiter.chatgpt_buckets[k]
                        /\ limiter'.chatgpt_buckets[key].tokens =
                               IF ret'.result
                               THEN had - tokens * TokenScale
                               ELSE had]_vars

C25_Witness ==
    /\ ret.op = "try_acquire"
    /\ ret.arg = <<None, 1, "gpt4o_mini">>
    /\ ret.result = TRUE
    /\ limiter.chatgpt_config.gpt4o_mini.auto_throttle
    /\ limiter.chatgpt_buckets["gpt4o"].tokens = 0
    /\ limiter.chatgpt_buckets["gpt4o"].last_update = clock

(***************************************************************************)
(* C26: reset_host_bucket(k) leaves the host without a bucket, changes     *)
(* neither the global bucket nor a model bucket nor the bucket of another  *)
(* host, and changes nothing when k has no bucket.  The next call that     *)
(* names k finds a full bucket: get_stats(k) reports tokens = capacity,    *)
(* and try_acquire(k), once the global bucket has granted the tokens,      *)
(* takes them from a bucket that held host_burst tokens.                   *)
(***************************************************************************)
C26_ResetGivesFullBucket ==
    [][/\ RateCalls("reset_host_bucket") =>
              LET k == ret'.arg[1]
              IN  /\ k \notin DOMAIN limiter'.host_buckets
                  /\ limiter'.global_bucket = limiter.global_bucket
                  /\ limiter'.chatgpt_buckets = limiter.chatgpt_buckets
                  /\ \A h \in (DOMAIN limiter.host_buckets) \ {k} :
                         /\ h \in DOMAIN limiter'.host_buckets
                         /\ limiter'.host_buckets[h] = limiter.host_buckets[h]
                  /\ DOMAIN limiter'.host_buckets
                         \subseteq DOMAIN limiter.host_buckets
                  /\ k \notin DOMAIN limiter.host_buckets
                         => limiter' = limiter
       /\ (ret.op = "reset_host_bucket" /\ RateCalls("get_stats")
              /\ ret'.arg[1] = ret.arg[1]) =>
              /\ ret'.result.host # {}
              /\ \A st \in ret'.result.host :
                     /\ st.tokens = st.capacity
                     /\ st.capacity = limiter.host_burst * TokenScale
       /\ (ret.op = "reset_host_bucket" /\ RateCalls("try_acquire")
              /\ ret'.arg[1] = ret.arg[1]
              /\ BucketTryAcquire(limiter.global_bucket, ret'.arg[2]).ok) =>
              LET k    == ret.arg[1]
                  full == limiter.host_burst * TokenScale
                  n    == ret'.arg[2] * TokenScale
              IN  /\ k \in DOMAIN limiter'.host_buckets
                  /\ limiter'.host_buckets[k].tokens =
                         IF n <= full THEN full - n ELSE full]_vars

C26_Witness ==
    /\ log # <<>>
    /\ log[Len(log)].had
    /\ log[Len(log)].level = 0
    /\ log[Len(log)].at = clock
    /\ ret.op = "try_acquire"
    /\ ret.arg[1] = log[Len(log)].host
    /\ ret.result = TRUE
    /\ \E h \in (DOMAIN limiter.host_buckets) \ {ret.arg[1]} :
           limiter.host_buckets[h].tokens = 0

(***************************************************************************)
(* C27, as stated: at any time there is one bucket at most in use for a    *)
(* host, counting the bucket of the host in self.host_buckets and the      *)
(* buckets that threads in try_acquire for the host have got and are       *)
(* about to debit; and every debit for the host goes to the bucket that    *)
(* self.host_buckets has for the host.                                     *)
(***************************************************************************)
InUse(host) ==
    {hostBuckets[h] : h \in (DOMAIN hostBuckets) \cap {host}}
        \cup {thr[t].ref : t \in {u \in Threads : /\ thr[u].at = "debit"
                                                  /\ thr[u].host = host}}

C27_OneBucketPerHost ==
    /\ \A host \in RaceHosts : Cardinality(InUse(host)) <= 1
    /\ \A t \in Threads : thr[t].applied # "orphan"

(***************************************************************************)
(* C27, amended: a bucket is made for a host only when the host has none,  *)
(* so there is one bucket more at most than buckets deleted by             *)
(* reset_host_bucket; a thread that is about to debit holds the bucket of  *)
(* the host in self.host_buckets unless reset_host_bucket deleted that     *)
(* bucket after the thread got it, and only in that case does a debit go   *)
(* to another bucket; and every bucket is short of exactly the debits it   *)
(* has granted.                                                            *)
(***************************************************************************)
C27_OneBucketUnlessReset ==
    /\ Len(heap) <= resets + 1
    /\ \A t \in Threads :
           /\ (thr[t].at = "debit" /\ ~thr[t].stale) =>
                  /\ thr[t].host \in DOMAIN hostBuckets
                  /\ hostBuckets[thr[t].host] = thr[t].ref
           /\ thr[t].applied = "orphan" => thr[t].stale
    /\ \A i \in DOMAIN heap :
           heap[i].bucket.tokens =
               heap[i].bucket.capacity - heap[i].debits * TokenScale

C27_Witness ==
    /\ resets = 0
    /\ Len(heap) = 1
    /\ heap[1].debits = 2
    /\ \A t \in Threads :
           thr[t].op = "idle" /\ thr[t].applied = "current"

(***************************************************************************)
(* A step in which get_conversation_list ran, and not only a new           *)
(* extractor was constructed.                                              *)
(***************************************************************************)
Discovers ==
    /\ ret'.op = "get_conversation_list"
    /\ ~ret'.arg.dead
    /\ <<cache, disk, last, ret>>' # <<cache, disk, last, ret>>
    /\ ~(cache' = LoadSelectorCache /\ UNCHANGED <<disk, last, ret>>)

Elements(list) == {list[i] : i \in DOMAIN list}

FirstPlace(list, x) ==
    CHOOSE i \in DOMAIN list :
        list[i] = x /\ \A j \in 1..(i - 1) : list[j] # x

(***************************************************************************)
(* C28: the selectors a call of get_conversation_list tests are, in order, *)
(* the cached selectors in cache order followed by the library selectors   *)
(* in library order, each at the place of its first occurrence only: no    *)
(* selector is tested twice, the selectors are tested in the order of      *)
(* their first occurrences in (cache, then library), none before the last  *)
(* tested one is left out, and when no selector is selected all of them    *)
(* have been tested.                                                       *)
(***************************************************************************)
C28_TrialOrder ==
    [][Discovers =>
           LET full  == cache \o SelectorLibrary
               tried == last'.tried
           IN  /\ \A i, j \in DOMAIN tried : i # j => tried[i] # tried[j]
               /\ Elements(tried) \subseteq Elements(full)
               /\ \A k \in 1..(Len(tried) - 1) :
                      FirstPlace(full, tried[k])
                          < FirstPlace(full, tried[k + 1])
               /\ tried # <<>>
               /\ \A i \in 1..FirstPlace(full, tried[Len(tried)]) :
                      full[i] \in Elements(tried)
               /\ last'.selected = {} => Elements(full) = Elements(tried)
               /\ \A selector \in last'.selected :
                      tried[Len(tried)] = selector]_vars

C28_Witness ==
    /\ ret.op = "get_conversation_list"
    /\ last.selected = {16}
    /\ Len(last.tried) = 13
    /\ last.tried[1] = 2
    /\ last.tried[2] = 7
    /\ last.tried[3] = 1

(***************************************************************************)
(* C29: when a call of get_conversation_list has extracted with a selector *)
(* S, the cache file holds S at its front when the call returns; and the   *)
(* next call, on the same document, tests S first.                         *)
(***************************************************************************)
C29_SelectedIsPromoted ==
    [][Discovers =>
           /\ \A S \in last'.selected :
                  /\ disk' # NoFile
                  /\ disk' # <<>>
                  /\ disk'[1] = S
           /\ (ret.op = "get_conversation_list" /\ ret'.arg = ret.arg) =>
                  \A S \in last.selected : last'.tried[1] = S]_vars

(***************************************************************************)
(* The hrefs of the valid elements of the first n frames of a source; the  *)
(* number of passes the collection makes over it: the first n at which the *)
(* cap is reached, or the last StabilityWindow passes added no href, or    *)
(* more than SafetyAttempts passes were made and the last added no href;   *)
(* and the place, frame and position, at which an href is seen first.      *)
(***************************************************************************)
ValidHrefs(frame) ==
    {frame[p].href : p \in {q \in DOMAIN frame : ValidElement(frame[q])}}

SeenBy(frames, n) == UNION {ValidHrefs(FrameAt(frames, k)) : k \in 1..n}

Adds(frames, k) ==
    ~(ValidHrefs(FrameAt(frames, k)) \subseteq SeenBy(frames, k - 1))

StopsAt(frames, n) ==
    \/ n = MaxScrollAttempts
    \/ /\ n >= StabilityWindow
       /\ \A k \in (n - StabilityWindow + 1)..n : ~Adds(frames, k)
    \/ n > SafetyAttempts /\ ~Adds(frames, n)

Passes(frames) ==
    CHOOSE n \in 1..MaxScrollAttempts :
        StopsAt(frames, n) /\ \A m \in 1..(n - 1) : ~StopsAt(frames, m)

FirstFrame(frames, href) ==
    CHOOSE k \in DOMAIN frames :
        /\ href \in ValidHrefs(frames[k])
        /\ \A m \in 1..(k - 1) : href \notin ValidHrefs(frames[m])

FirstInFrame(frame, href) ==
    CHOOSE p \in DOMAIN frame :
        /\ ValidElement(frame[p]) /\ frame[p].href = href
        /\ \A q \in 1..(p - 1) :
               ~(ValidElement(frame[q]) /\ frame[q].href = href)

FirstSeen(frames, href) ==
    <<FirstFrame(frames, href),
      FirstInFrame(frames[FirstFrame(frames, href)], href)>>

(***************************************************************************)
(* C30: _extract_conversations_with_scrolling returns the conversations of *)
(* the valid elements it has seen in its passes, one for every href, in    *)
(* the order in which the hrefs were seen first and with the title seen    *)
(* first.  On the source that shows 3 links more after each of 2 scrolls   *)
(* and then no more, it returns those 6 conversations.                     *)
(***************************************************************************)
C30_CollectsUnionOnce ==
    ret.op = "_extract_conversations_with_scrolling" =>
        LET frames == ret.arg.frames
            found  == ret.result
        IN  /\ \A i, j \in DOMAIN found :
                   i # j => found[i].url # found[j].url
            /\ {found[i].url : i \in DOMAIN found}
                   = SeenBy(frames, Passes(frames))
            /\ \A i \in DOMAIN found :
                   LET x == FirstSeen(frames, found[i].url)
                   IN  /\ found[i] = Conversation(FrameAt(frames, x[1])[x[2]])
                       /\ i < Len(found) =>
                              LET y == FirstSeen(frames, found[i + 1].url)
                              IN  \/ x[1] < y[1]
                                  \/ x[1] = y[1] /\ x[2] < y[2]
            /\ frames \in {Growing(0, 3, 2), Growing(3, 3, 2)} =>
                   found = [i \in 1..(3 * Len(frames) - 3 + Len(frames[1]))
                               |-> Conversation(Link(i))]

C30_Witness ==
    /\ ret.op = "_extract_conversations_with_scrolling"
    /\ ret.arg.frames = Growing(0, 3, 2)
    /\ Len(ret.result) = 6
    /\ last.scroll_attempts = 5

(***************************************************************************)
(* C31: when _extract_conversations_with_scrolling returns, either the cap *)
(* of 50 scroll attempts has been reached or the last 3 passes in a row    *)
(* found no new conversation: the loop never ends below the cap with fewer *)
(* than 3 passes without a new conversation behind it.                     *)
(***************************************************************************)
C31_StopsAtCapOrStability ==
    ret.op = "_extract_conversations_with_scrolling" =>
        \/ last.scroll_attempts = MaxScrollAttempts
        \/ last.no_new_conversations_count >= StabilityWindow

(***************************************************************************)
(* C32: _extract_conversations_with_scrolling returns after at most 50     *)
(* passes over any source: scroll_attempts is at most 50 when it returns   *)
(* and no conversation comes from beyond the 50th frame.  On the source    *)
(* that shows another new link after every scroll, 60 scrolls long, it     *)
(* returns the 50 conversations of the first 50 frames after 50 attempts.  *)
(***************************************************************************)
C32_ReturnsWithinCap ==
    ret.op = "_extract_conversations_with_scrolling" =>
        /\ last.scroll_attempts <= MaxScrollAttempts
        /\ {ret.result[i].url : i \in DOMAIN ret.result}
               \subseteq SeenBy(ret.arg.frames, MaxScrollAttempts)
        /\ ret.arg.frames = Sliding(60) =>
               /\ last.scroll_attempts = MaxScrollAttempts
               /\ ret.result
                      = [i \in 1..MaxScrollAttempts |-> Conversation(Link(i))]

C32_Witness ==
    /\ ret.op = "_extract_conversations_with_scrolling"
    /\ Len(ret.arg.frames) = 61
    /\ Len(ret.result) = MaxScrollAttempts
    /\ ret.result[MaxScrollAttempts].url = MaxScrollAttempts
    /\ last.no_new_conversations_count = 0

(***************************************************************************)
(* The fault of the driver of the last call has struck: its selector was   *)
(* tested, and either the test raised or the selector found valid elements *)
(* and the scrolling came as far as the pass that raises.                  *)
(***************************************************************************)
Struck ==
    LET doc == ret.arg
    IN  /\ ret.op = "get_conversation_list"
        /\ ~doc.dead
        /\ doc.fault.selector \in Elements(last.tried)
        /\ \/ doc.fault.pass = 0
           \/ /\ doc.fault.selector \in doc.matching \ doc.gone
              /\ ValidHrefs(FrameAt(doc.frames, 1)) # {}
              /\ doc.fault.pass \in 1..Passes(doc.frames)

(***************************************************************************)
(* C33: get_conversation_list always returns a list of conversations of    *)
(* valid elements of the document, whatever the driver raises.  A selector *)
(* whose test or scrolling raised is not the selected one and the          *)
(* selectors after it are tested; when the fault passes, the first other   *)
(* selector that matches is selected and its conversations are returned,   *)
(* and without one all selectors are tested and the valid links of the     *)
(* fallback are returned; when the fault lasts, or the driver is dead from *)
(* the start, the empty list is returned.                                  *)
(***************************************************************************)
C33_ErrorsAreFailedTrials ==
    ret.op = "get_conversation_list" =>
        LET doc    == ret.arg
            s      == doc.fault.selector
            others == doc.matching \ (doc.gone \cup {s})
            tried  == last.tried
        IN  /\ \A i \in DOMAIN ret.result :
                   /\ ret.result[i].url
                          \in SeenBy(doc.frames, Len(doc.frames))
                                  \cup ValidHrefs(doc.links)
                   /\ ret.result[i].title # ""
            /\ doc.dead => ret.result = <<>> /\ last.selected = {}
            /\ Struck =>
                   /\ s \notin last.selected
                   /\ FirstPlace(tried, s) < Len(tried)
                   /\ doc.fault.lasting =>
                          /\ ret.result = <<>>
                          /\ last.selected = {}
                   /\ (~doc.fault.lasting /\ others # {}) =>
                          /\ last.selected # {}
                          /\ last.selected \subseteq others
                          /\ tried[Len(tried)] \in last.selected
                          /\ ret.result # <<>>
                   /\ (~doc.fault.lasting /\ others = {}) =>
                          /\ last.selected = {}
                          /\ Elements(tried) = Elements(SelectorLibrary)
                          /\ {ret.result[i].url : i \in DOMAIN ret.result}
                                 = ValidHrefs(doc.links)

C33_Witness ==
    /\ Struck
    /\ ret.arg.fault = [selector |-> 2, pass |-> 2, lasting |-> FALSE]
    /\ last.selected = {7}
    /\ Len(ret.result) = 3

(***************************************************************************)
(* C34: when the driver becomes unusable in a pass of the scrolling (the   *)
(* find_elements of that pass and every driver call after it raise),       *)
(* get_conversation_list returns the conversations the scrolling had       *)
(* collected in the passes before.                                         *)
(***************************************************************************)
C34_DeadDriverKeepsCollected ==
    (Struck /\ ret.arg.fault.lasting /\ ret.arg.fault.pass >= 1) =>
        {ret.result[i].url : i \in DOMAIN ret.result}
            = SeenBy(ret.arg.frames, ret.arg.fault.pass - 1)

(***************************************************************************)
(* C35: when a call of get_conversation_list selects no selector, it has   *)
(* tested every selector, and it returns the fallback's conversations: one *)
(* for every link of the document that has a text and an href with "/c/",  *)
(* in document order, and so the empty list only when there is no such     *)
(* link (or the driver has become unusable); the selector cache and the    *)
(* cache file are left as they were.                                       *)
(***************************************************************************)
C35_FallbackWhenNoStrategyWorks ==
    [][(Discovers /\ last'.selected = {}) =>
           LET doc   == ret'.arg
               links == doc.links
               keep  == {i \in DOMAIN links :
                            links[i].href > 0 /\ links[i].text # ""}
               found == ret'.result
           IN  /\ cache' = cache
               /\ disk' = disk
               /\ Elements(last'.tried) = Elements(SelectorLibrary)
               /\ IF Struck' /\ doc.fault.lasting
                  THEN found = <<>>
                  ELSE /\ Len(found) = Cardinality(keep)
                       /\ \A i \in keep :
                              found[Cardinality({j \in keep : j <= i})]
                                  = [id |-> links[i].href,
                                     title |-> links[i].text,
                                     url |-> links[i].href]]_vars

C35_Witness ==
    /\ ret.op = "get_conversation_list"
    /\ last.selected = {}
    /\ Len(ret.arg.links) = 5
    /\ Len(ret.result) = 2
    /\ ret.result[2].url = 3
    /\ cache # <<>>
    /\ disk = cache

(***************************************************************************)
(* C36: no result of get_conversation_list, from a selected selector or    *)
(* from the fallback, holds two conversations with the same url.           *)
(***************************************************************************)
C36_NoUrlTwice ==
    ret.op = "get_conversation_list" =>
        \A i, j \in DOMAIN ret.result :
            i # j => ret.result[i].url # ret.result[j].url

(***************************************************************************)
(* C37: when try_acquire returns false because the bucket of the host or   *)
(* of the model is short while the global bucket held enough, the global   *)
(* bucket is left at its refilled level less tokens; when the bucket of    *)
(* the model is the short one, the bucket of the host, if one is named, is *)
(* left at its refilled level less tokens as well; the short bucket is     *)
(* left at its refilled level, and every other bucket as it was.           *)
(***************************************************************************)
C37_NoRollback ==
    [][(RateCalls("try_acquire") /\ ret'.result = FALSE
            /\ Refilled(limiter.global_bucket) >= ret'.arg[2] * TokenScale) =>
           LET host      == ret'.arg[1]
               need      == ret'.arg[2] * TokenScale
               model     == ret'.arg[3]
               hosts     == IF host = None THEN {} ELSE {host}
               keys      == IF model = None THEN {} ELSE ModelKeys(model)
               hostShort == \E h \in hosts : HostLevel(h) < need
           IN  /\ limiter'.global_bucket.tokens =
                      Refilled(limiter.global_bucket) - need
               /\ DOMAIN limiter'.host_buckets =
                      (DOMAIN limiter.host_buckets) \cup hosts
               /\ \A h \in DOMAIN limiter'.host_buckets :
                     IF h \in hosts
                     THEN limiter'.host_buckets[h].tokens =
                              IF hostShort
                              THEN HostLevel(h)
                              ELSE HostLevel(h) - need
                     ELSE limiter'.host_buckets[h] = limiter.host_buckets[h]
               /\ \A k \in ChatgptModels :
                     IF k \in keys /\ ~hostShort
                     THEN /\ Refilled(limiter.chatgpt_buckets[k]) < need
                          /\ limiter'.chatgpt_buckets[k].tokens =
                                 Refilled(limiter.chatgpt_buckets[k])
                     ELSE limiter'.chatgpt_buckets[k] =
                              limiter.chatgpt_buckets[k]
               /\ hostShort \/ keys # {}
      ]_vars

C37_Witness ==
    /\ ret.op = "try_acquire"
    /\ ret.result = FALSE
    /\ ret.arg = <<"h1", 1, "gpt4o">>
    /\ clock = 0
    /\ limiter.global_bucket.tokens = 0
    /\ "h1" \in DOMAIN limiter.host_buckets
    /\ limiter.host_buckets["h1"].tokens = 0
    /\ limiter.chatgpt_buckets["gpt4o"].tokens = 0
    /\ limiter.chatgpt_buckets["gpt45"].tokens = TokenScale

(***************************************************************************)
(* C38: with threads interleaved in LeakyBucket.try_acquire on one bucket, *)
(* the bucket never holds less than nothing; the tokens it has granted     *)
(* never exceed what it held at the start plus the refill accrued since;   *)
(* at most one thread is between the lock and the return at a time; and in *)
(* every step the tokens granted so far plus the tokens the bucket holds   *)
(* or is owed for the time since its last update grow by no more than the  *)
(* refill of the time that passes in the step, so that over any interval   *)
(* the bucket grants no more than it held at the start plus the refill     *)
(* accrued.                                                                *)
(***************************************************************************)
C38_NoDoubleSpend ==
    /\ [](\A i \in DOMAIN heap :
              /\ heap[i].bucket.tokens >= 0
              /\ heap[i].debits * TokenScale
                     <= 2 * TokenScale + heap[i].bucket.leak_rate * clock
              /\ Cardinality({t \in Threads :
                                  /\ thr[t].ref = i
                                  /\ thr[t].at \in {"leak", "test",
                                                     "subtract"}}) <= 1)
    /\ [][\A i \in DOMAIN heap :
              LET b == heap[i].bucket
                  c == heap'[i].bucket
              IN  c.tokens + (clock' - c.last_update) * c.leak_rate
                      + heap'[i].debits * TokenScale
                  <= b.tokens + (clock - b.last_update) * b.leak_rate
                         + heap[i].debits * TokenScale
                         + (clock' - clock) * b.leak_rate]_vars

C38_Witness ==
    /\ heap # <<>>
    /\ heap[1].debits = 3
    /\ heap[1].bucket.tokens = 0
    /\ clock = 2
    /\ ret.op = "LeakyBucket.try_acquire"
    /\ ret.result = FALSE
    /\ \E t \in Threads : thr[t].at = "lock"


(***************************************************************************)
(* C39: under any sequence of add_job, get_next_job, start_job,            *)
(* complete_job, fail_job, reset_failed_jobs and clear_completed_jobs      *)
(* every row has 0 <= retry_count <= max_retries; and between two          *)
(* reset_failed_jobs calls a row enters retry at most max_retries times:   *)
(* every fail_job that leaves its row in retry adds exactly one to the     *)
(* row's retry_count, and nothing but reset_failed_jobs ever lowers a      *)
(* retry_count, so the entries into retry since the last reset are counted *)
(* by retry_count and bounded with it.                                     *)
(***************************************************************************)
EntersRetry(i) ==
    /\ i \in DOMAIN jobs
    /\ i \in DOMAIN jobs'
    /\ now' = now
    /\ ret'.op = "fail_job"
    /\ ret'.arg[1] = i
    /\ jobs'[i].status = RETRY

C39_RetryCountWithinMax ==
    /\ [](\A i \in DOMAIN jobs :
              /\ 0 <= jobs[i].retry_count
              /\ jobs[i].retry_count <= jobs[i].max_retries)
    /\ [][\A i \in (DOMAIN jobs) \cap (DOMAIN jobs') :
              /\ EntersRetry(i) => jobs'[i].retry_count = jobs[i].retry_count + 1
              /\ jobs'[i].retry_count < jobs[i].retry_count
                     => ret'.op = "reset_failed_jobs"
              /\ jobs'[i].max_retries = jobs[i].max_retries]_vars

C39_Witness ==
    /\ ret.op = "fail_job"
    /\ ret.arg[1] \in DOMAIN jobs
    /\ jobs[ret.arg[1]].status = FAILED
    /\ jobs[ret.arg[1]].retry_count = jobs[ret.arg[1]].max_retries
    /\ \E j \in DOMAIN jobs :
          /\ jobs[j].status = RETRY
          /\ jobs[j].retry_count = 1
          /\ jobs[j].completed_at # NoTime


(***************************************************************************)
(* C40: in every reachable state of the queue a completed or failed row    *)
(* has completed_at set, a processing row has started_at set, and a retry  *)
(* row has started_at NULL.                                                *)
(***************************************************************************)
C40_TimestampsMatchStatus ==
    \A i \in DOMAIN jobs :
        /\ jobs[i].status \in {COMPLETED, FAILED} => jobs[i].completed_at # NoTime
        /\ jobs[i].status = PROCESSING => jobs[i].started_at # NoTime
        /\ jobs[i].status = RETRY => jobs[i].started_at = NoTime

C40_Witness ==
    /\ ret.op = "fail_job"
    /\ ret.arg[1] \in DOMAIN jobs
    /\ jobs[ret.arg[1]].status = FAILED
    /\ jobs[ret.arg[1]].completed_at = now
    /\ now > 0
    /\ \E j \in DOMAIN jobs :
          /\ jobs[j].status = PROCESSING
          /\ jobs[j].started_at = 0
          /\ jobs[j].completed_at = 0

=============================================================================
